---- MODULE Spec2Model ----
(***************************************************************************)
(* Model of the work-summary commit-history and effort-estimation engine   *)
(* (crates/work-summary): the estimator, the session partitioning, the     *)
(* contributor / value / pattern aggregations, the commit extractor and    *)
(* the total summary; of the line metrics of crates/code-cost; and of the  *)
(* loop of both tools' main over the repository paths.                     *)
(*                                                                         *)
(* Numbers.  Timestamps and durations are whole seconds (git author times  *)
(* have no sub-second part).  f64 hours are represented exactly as integer *)
(* multiples of 1/30000 hour (HourUnit), weights and factors as tenths:    *)
(* every product the code forms is then an integer, and "equal up to       *)
(* floating tolerance" is equality of these exact values.                  *)
(***************************************************************************)
EXTENDS Integers, Sequences, FiniteSets, TLC

\* Longest commit sequence handed to the analysers.
MaxCommits == 3

\* One hour in the model's unit of estimated time: 1/30000 h divides 1/60 h
\* (a minute of gap), 1/2000 h (a tenth of a line at a tenth of a factor)
\* and their 0.6 / 0.4 weighted parts.
HourUnit == 30 * 1000

(***************************************************************************)
(* Integer helpers with Rust semantics                                     *)
(***************************************************************************)

\* Rust's integer division truncates toward zero.
TruncDiv(a, b) == IF a >= 0 THEN a \div b ELSE -((-a) \div b)

\* Rust's % takes the sign of the dividend.
Rem(a, b) == a - b * TruncDiv(a, b)

Min(a, b) == IF a <= b THEN a ELSE b

RECURSIVE SumSet(_, _)
\* Sum of f[x] over the finite set S.
SumSet(S, f) == IF S = {} THEN 0 ELSE LET x == CHOOSE y \in S : TRUE IN f[x] + SumSet(S \ {x}, f)

\* chrono::Duration::num_hours / num_minutes of a duration of d whole seconds.
num_hours(d) == TruncDiv(d, 3600)

num_minutes(d) == TruncDiv(d, 60)

\* a.signed_duration_since(b), in seconds.
signed_duration_since(a, b) == a - b

(***************************************************************************)
(* TimeEstimator (git/time_estimator.rs)                                   *)
(***************************************************************************)

MAX_SESSION_GAP_HOURS == 4

LINES_PER_HOUR == 20

\* TIME_WEIGHT = 0.6 and CHANGE_WEIGHT = 0.4, in tenths.
TIME_WEIGHT == 6

CHANGE_WEIGHT == 4

\* get_language_weight, in tenths.
get_language_weight(language) ==
    CASE language = "Rust" -> 15
      [] language \in {"C++", "C"} -> 14
      [] language = "Go" -> 13
      [] language \in {"Java", "C#", "TypeScript"} -> 12
      [] language \in {"Python", "Ruby", "PHP"} -> 11
      [] language = "JavaScript" -> 10
      [] language \in {"Swift", "Kotlin"} -> 12
      [] language = "Shell" -> 9
      [] language \in {"HTML", "CSS", "SCSS"} -> 7
      [] language \in {"Markdown", "JSON", "YAML", "TOML", "XML"} -> 5
      [] OTHER -> 10

\* estimate_from_time_gap without the cap at MAX_SESSION_GAP_HOURS.
estimate_from_time_gap_uncapped(duration) ==
    LET hours == num_hours(duration) * HourUnit + Rem(num_minutes(duration), 60) * (HourUnit \div 60)
    IN IF hours < 0 THEN 0 ELSE hours

\* estimate_from_time_gap: hours = num_hours + (num_minutes % 60) / 60,
\* 0 when negative, else capped at MAX_SESSION_GAP_HOURS.  In HourUnit.
estimate_from_time_gap(duration) ==
    LET hours == num_hours(duration) * HourUnit + Rem(num_minutes(duration), 60) * (HourUnit \div 60)
    IN IF hours < 0 THEN 0 ELSE Min(hours, MAX_SESSION_GAP_HOURS * HourUnit)

\* The if / else-if chain of estimate_from_changes, in tenths.
complexity_factor(files_changed) ==
    IF files_changed > 5 THEN 12
    ELSE IF files_changed > 10 THEN 14
    ELSE 10

\* weighted_lines of estimate_from_changes, in tenths of a line.
weighted_lines(commit) ==
    LET lc == commit.language_changes
        langs == DOMAIN lc
        total_lines == commit.insertions + commit.deletions
        weighted == SumSet(langs, [l \in langs |-> (lc[l].insertions + lc[l].deletions) * get_language_weight(l)])
        total_changes == SumSet(langs, [l \in langs |-> lc[l].insertions + lc[l].deletions])
    IN IF total_changes = 0 /\ total_lines > 0 THEN total_lines * 10 ELSE weighted

\* estimate_from_changes: weighted_lines / LINES_PER_HOUR * complexity_factor.
\* weighted (tenths) * factor (tenths) / 100 / 20 hours, in HourUnit.
estimate_from_changes(commit) ==
    weighted_lines(commit) * complexity_factor(commit.files_changed) * (HourUnit \div (100 * LINES_PER_HOUR))

\* time_based of commit i: the gap to commits[i+1], 0 for the last one.
time_based(cs, i) ==
    IF i < Len(cs)
    THEN estimate_from_time_gap(signed_duration_since(cs[i].timestamp, cs[i + 1].timestamp))
    ELSE 0

\* hybrid_estimate with the test `time_based >= 0.0`: the change-only branch
\* is never taken.
hybrid_estimate_always_blended(cs, i) ==
    LET tb == time_based(cs, i)
        cb == estimate_from_changes(cs[i])
    IN IF tb >= 0 THEN (tb * TIME_WEIGHT + cb * CHANGE_WEIGHT) \div 10 ELSE cb

\* hybrid_estimate of commit i inside estimate_work_hours.
hybrid_estimate(cs, i) ==
    LET tb == time_based(cs, i)
        cb == estimate_from_changes(cs[i])
    IN IF tb > 0 THEN (tb * TIME_WEIGHT + cb * CHANGE_WEIGHT) \div 10 ELSE cb

\* estimate_work_hours: 0.0 for no commits, else the sum of the hybrid estimates.
estimate_work_hours(cs) ==
    IF cs = <<>> THEN 0
    ELSE SumSet(1..Len(cs), [i \in 1..Len(cs) |-> hybrid_estimate(cs, i)])

\* The branch of estimate_session_hours's loop: extend the current session.
same_session(prev_commit, curr_commit) ==
    num_hours(signed_duration_since(prev_commit.timestamp, curr_commit.timestamp)) <= MAX_SESSION_GAP_HOURS

\* WorkSession { start, end, commits, estimated_hours: 0.0 } of one commit.
new_session(commit) ==
    [start |-> commit.timestamp, end |-> commit.timestamp, commits |-> <<commit>>, estimated_hours |-> 0]

\* Closing a session records the estimate of just its commits.
close_session(session) ==
    [session EXCEPT !.estimated_hours = estimate_work_hours(session.commits)]

RECURSIVE session_loop_dropping_last(_, _, _, _)
\* The loop without the push of the session that is open when it ends.
session_loop_dropping_last(cs, i, sessions, current_session) ==
    IF i > Len(cs) THEN sessions
    ELSE IF same_session(cs[i - 1], cs[i])
         THEN session_loop_dropping_last(cs, i + 1, sessions,
                                         [current_session EXCEPT !.end = cs[i].timestamp, !.commits = Append(@, cs[i])])
         ELSE session_loop_dropping_last(cs, i + 1, Append(sessions, close_session(current_session)), new_session(cs[i]))

RECURSIVE session_loop(_, _, _, _)
\* The for loop of estimate_session_hours from index i on.
session_loop(cs, i, sessions, current_session) ==
    IF i > Len(cs) THEN Append(sessions, close_session(current_session))
    ELSE IF same_session(cs[i - 1], cs[i])
         THEN session_loop(cs, i + 1, sessions,
                           [current_session EXCEPT !.end = cs[i].timestamp, !.commits = Append(@, cs[i])])
         ELSE session_loop(cs, i + 1, Append(sessions, close_session(current_session)), new_session(cs[i]))

estimate_session_hours(cs) ==
    IF cs = <<>> THEN <<>> ELSE session_loop(cs, 2, <<>>, new_session(cs[1]))

(***************************************************************************)
(* ContributorStats (analyzer/contribution.rs)                             *)
(***************************************************************************)

\* All orders in which a HashMap holding the keys S may be iterated.
Orders(S) == {o \in [1..Cardinality(S) -> S] : \A i, j \in 1..Cardinality(S) : o[i] = o[j] => i = j}

\* An f64 quotient n / d kept exact as a fraction.
Ratio(n, d) == [num |-> n, den |-> d]

\* The positions of the commits of one author email.
IndicesOf(cs, email) == {i \in 1..Len(cs) : cs[i].email = email}

\* ContributorData that adds up only the commits signed with the name of
\* the email's first commit.
contributor_data_of_first_name(cs, email) ==
    LET all == IndicesOf(cs, email)
        first == CHOOSE i \in all : \A j \in all : i <= j
        idx == {i \in all : cs[i].author = cs[first].author}
    IN [name |-> cs[first].author,
        email |-> email,
        commit_count |-> SumSet(idx, [i \in idx |-> 1]),
        insertions |-> SumSet(idx, [i \in idx |-> cs[i].insertions]),
        deletions |-> SumSet(idx, [i \in idx |-> cs[i].deletions]),
        files_changed |-> SumSet(idx, [i \in idx |-> cs[i].files_changed])]

\* ContributorData after the aggregation loop, for one email.
contributor_data(cs, email) ==
    LET idx == IndicesOf(cs, email)
        first == CHOOSE i \in idx : \A j \in idx : i <= j
    IN [name |-> cs[first].author,
        email |-> email,
        commit_count |-> SumSet(idx, [i \in idx |-> 1]),
        insertions |-> SumSet(idx, [i \in idx |-> cs[i].insertions]),
        deletions |-> SumSet(idx, [i \in idx |-> cs[i].deletions]),
        files_changed |-> SumSet(idx, [i \in idx |-> cs[i].files_changed])]

\* contributor_percentage without the `* 100.0`: a fraction, not a percentage.
contributor_percentage_as_fraction(commit_count, total_commits) ==
    IF total_commits > 0 THEN Ratio(commit_count, total_commits) ELSE Ratio(0, 1)

\* percentage = commit_count / total_commits * 100, 0.0 when there are none.
contributor_percentage(commit_count, total_commits) ==
    IF total_commits > 0 THEN Ratio(commit_count * 100, total_commits) ELSE Ratio(0, 1)

\* The map closure: ContributorData -> ContributorStats.
contributor_stats(data, total_commits) ==
    [name |-> data.name,
     email |-> data.email,
     commit_count |-> data.commit_count,
     insertions |-> data.insertions,
     deletions |-> data.deletions,
     files_changed |-> data.files_changed,
     percentage |-> contributor_percentage(data.commit_count, total_commits)]

RECURSIVE InsertDesc(_, _, _)
\* x inserted into the sequence s, already sorted by descending key, after
\* every element whose key is >= x's: one step of a stable sort.
InsertDesc(s, x, key) ==
    IF s = <<>> THEN <<x>>
    ELSE IF key[Head(s)] >= key[x] THEN <<Head(s)>> \o InsertDesc(Tail(s), x, key)
    ELSE <<x>> \o s

\* The sequence left in the order it came in.
unsorted(s, key) == s

RECURSIVE StableSortDesc(_, _)
\* slice::sort_by(|a, b| key(b).cmp(&key(a))): stable, descending by key.
\* s is a sequence of distinct keys of the function key.
StableSortDesc(s, key) ==
    IF s = <<>> THEN <<>>
    ELSE InsertDesc(StableSortDesc(SubSeq(s, 1, Len(s) - 1), key), s[Len(s)], key)

\* The emails that key contributor_map.
ContributorKeys(cs) == {cs[i].email : i \in 1..Len(cs)}

\* ContributorStats::from_commits, with the map iterated in the order `order`.
from_commits(cs, order) ==
    LET keys == ContributorKeys(cs)
        count == [e \in keys |-> contributor_data(cs, e).commit_count]
        sorted == StableSortDesc(order, count)
    IN [k \in 1..Len(sorted) |-> contributor_stats(contributor_data(cs, sorted[k]), Len(cs))]

(***************************************************************************)
(* ValueEstimate (analyzer/value_calculator.rs)                            *)
(***************************************************************************)

\* calculate_complexity_factor with `<=` for `<` at every band edge.
calculate_complexity_factor_inclusive(total_changes) ==
    IF total_changes <= 100 THEN 8
    ELSE IF total_changes <= 500 THEN 10
    ELSE IF total_changes <= 2000 THEN 12
    ELSE 14

\* calculate_complexity_factor, in tenths.
calculate_complexity_factor(total_changes) ==
    IF total_changes < 100 THEN 8
    ELSE IF total_changes < 500 THEN 10
    ELSE IF total_changes < 2000 THEN 12
    ELSE 14

\* The levels vector of calculate: (name, multiplier in tenths).
levels == <<[level |-> "Junior", multiplier |-> 10],
            [level |-> "Mid-level", multiplier |-> 15],
            [level |-> "Senior", multiplier |-> 20],
            [level |-> "Lead", multiplier |-> 25],
            [level |-> "Principal", multiplier |-> 30]>>

\* One DeveloperLevel: hourly_rate in hundredths of the currency unit,
\* total_value in hundredths per HourUnit.
developer_level(l, estimated, base_hourly_rate, factor) ==
    LET hourly_rate == base_hourly_rate * l.multiplier * factor
    IN [level |-> l.level,
        multiplier |-> l.multiplier,
        hourly_rate |-> hourly_rate,
        total_value |-> estimated * hourly_rate]

\* mid_level_value taking the first level of the table instead of "Mid-level".
mid_level_value_first_level(developer_levels) ==
    IF developer_levels = <<>> THEN 0 ELSE developer_levels[1].total_value

\* .find(|l| l.level == "Mid-level").map(|l| l.total_value).unwrap_or(0.0)
mid_level_value(developer_levels) ==
    LET hits == {i \in 1..Len(developer_levels) : developer_levels[i].level = "Mid-level"}
    IN IF hits = {} THEN 0
       ELSE developer_levels[CHOOSE i \in hits : \A j \in hits : i <= j].total_value

\* ValueEstimate::calculate.
calculate(estimated, base_hourly_rate, total_changes) ==
    LET factor == calculate_complexity_factor(total_changes)
        developer_levels == [k \in 1..Len(levels) |-> developer_level(levels[k], estimated, base_hourly_rate, factor)]
    IN [estimated_hours |-> estimated,
        base_hourly_rate |-> base_hourly_rate,
        developer_levels |-> developer_levels,
        recommended_value |-> mid_level_value(developer_levels)]

(***************************************************************************)
(* WorkAnalysis (analyzer/mod.rs)                                          *)
(***************************************************************************)

\* The languages that key language_map.
LanguageKeys(cs) == UNION {DOMAIN cs[i].language_changes : i \in 1..Len(cs)}

\* One entry of language_breakdown.
language_stats(cs, lang, total_changes) ==
    LET idx == {i \in 1..Len(cs) : lang \in DOMAIN cs[i].language_changes}
        ins == SumSet(idx, [i \in idx |-> cs[i].language_changes[lang].insertions])
        del == SumSet(idx, [i \in idx |-> cs[i].language_changes[lang].deletions])
    IN [insertions |-> ins,
        deletions |-> del,
        net_change |-> ins - del,
        percentage |-> IF total_changes > 0 THEN Ratio((ins + del) * 100, total_changes) ELSE Ratio(0, 1)]

\* WorkAnalysis::from_commits; `order` is the iteration order of contributor_map.
work_analysis(cs, estimated, hourly_rate, order) ==
    LET n == Len(cs)
        total_insertions == SumSet(1..n, [i \in 1..n |-> cs[i].insertions])
        total_deletions == SumSet(1..n, [i \in 1..n |-> cs[i].deletions])
    IN [total_commits |-> n,
        unique_contributors |-> Cardinality({cs[i].email : i \in 1..n}),
        total_files_changed |-> SumSet(1..n, [i \in 1..n |-> cs[i].files_changed]),
        total_insertions |-> total_insertions,
        total_deletions |-> total_deletions,
        estimated_hours |-> estimated,
        language_breakdown |-> [l \in LanguageKeys(cs) |-> language_stats(cs, l, total_insertions + total_deletions)],
        value_estimate |-> calculate(estimated, hourly_rate, total_insertions + total_deletions),
        contribution_breakdown |-> from_commits(cs, order)]

(***************************************************************************)
(* WorkPatterns (patterns/mod.rs)                                          *)
(***************************************************************************)

SecondsPerDay == 24 * 3600

\* timestamp.hour() of a UTC instant.
hour_of(t) == (t % SecondsPerDay) \div 3600

\* The calendar date of a UTC instant as days since 1970-01-01: the key that
\* format("%Y-%m-%d") stands for.
date_key(t) == t \div SecondsPerDay

\* weekday_to_string(timestamp.weekday()); 1970-01-01 was a Thursday.
weekday_to_string(t) ==
    LET names == <<"Monday", "Tuesday", "Wednesday", "Thursday", "Friday", "Saturday", "Sunday">>
    IN names[((date_key(t) + 3) % 7) + 1]

\* chrono::Duration::num_days of a duration of d whole seconds.
num_days(d) == TruncDiv(d, SecondsPerDay)

\* The three histograms built by the loop of analyze.
hourly_distribution(cs) ==
    LET keys == {hour_of(cs[i].timestamp) : i \in 1..Len(cs)}
    IN [h \in keys |-> Cardinality({i \in 1..Len(cs) : hour_of(cs[i].timestamp) = h})]

daily_distribution(cs) ==
    LET keys == {weekday_to_string(cs[i].timestamp) : i \in 1..Len(cs)}
    IN [d \in keys |-> Cardinality({i \in 1..Len(cs) : weekday_to_string(cs[i].timestamp) = d})]

daily_commit_count(cs) ==
    LET keys == {date_key(cs[i].timestamp) : i \in 1..Len(cs)}
    IN [d \in keys |-> Cardinality({i \in 1..Len(cs) : date_key(cs[i].timestamp) = d})]

\* peak_hours without the sort: the first three hours the map yields.
peak_hours_in_map_order(hist, order) == SubSeq(order, 1, Min(3, Len(order)))

\* peak_hours: the histogram collected in iteration order, stably sorted by
\* descending count, the first three hours taken.
peak_hours(hist, order) ==
    LET sorted == StableSortDesc(order, hist)
    IN SubSeq(sorted, 1, Min(3, Len(sorted)))

\* Iterator::max_by_key returns the last of several equally maximal elements.
most_active_day(hist, order) ==
    IF order = <<>> THEN "Unknown"
    ELSE LET best == {i \in 1..Len(order) : \A j \in 1..Len(order) : hist[order[j]] <= hist[order[i]]}
         IN order[CHOOSE i \in best : \A j \in best : j <= i]

\* values().max().copied().unwrap_or(0)
max_value(hist) ==
    IF DOMAIN hist = {} THEN 0
    ELSE hist[CHOOSE k \in DOMAIN hist : \A j \in DOMAIN hist : hist[j] <= hist[k]]

\* default_patterns with the "+ 1" of total_days applied to the empty case too.
default_patterns_one_day ==
    [hourly_distribution |-> <<>>,
     daily_distribution |-> <<>>,
     peak_hours |-> <<>>,
     most_active_day |-> "Unknown",
     commit_frequency |-> [average_commits_per_day |-> Ratio(0, 1),
                           max_commits_per_day |-> 0,
                           active_days |-> 0,
                           total_days |-> 1]]

\* impl Default for WorkPatterns.
default_patterns ==
    [hourly_distribution |-> <<>>,
     daily_distribution |-> <<>>,
     peak_hours |-> <<>>,
     most_active_day |-> "Unknown",
     commit_frequency |-> [average_commits_per_day |-> Ratio(0, 1),
                           max_commits_per_day |-> 0,
                           active_days |-> 0,
                           total_days |-> 0]]

\* WorkPatterns::analyze; hour_order and day_order are the iteration orders
\* of hourly_distribution and daily_distribution.
analyze(cs, hour_order, day_order) ==
    IF cs = <<>> THEN default_patterns
    ELSE LET first_commit == cs[Len(cs)]
             last_commit == cs[1]
             total_days == num_days(last_commit.timestamp - first_commit.timestamp) + 1
             per_date == daily_commit_count(cs)
         IN [hourly_distribution |-> hourly_distribution(cs),
             daily_distribution |-> daily_distribution(cs),
             peak_hours |-> peak_hours(hourly_distribution(cs), hour_order),
             most_active_day |-> most_active_day(daily_distribution(cs), day_order),
             commit_frequency |-> [average_commits_per_day |-> IF total_days > 0 THEN Ratio(Len(cs), total_days) ELSE Ratio(0, 1),
                                   max_commits_per_day |-> max_value(per_date),
                                   active_days |-> Cardinality(DOMAIN per_date),
                                   total_days |-> total_days]]

(***************************************************************************)
(* RepositorySummary (summary/mod.rs)                                      *)
(***************************************************************************)

\* Period of RepositorySummary::new; now1 and now2 are the two Utc::now()
\* readings of the empty branch.
period_of(cs, now1, now2) ==
    IF cs = <<>> THEN [start |-> now1, end |-> now2, description |-> "No commits"]
    ELSE [start |-> cs[Len(cs)].timestamp,
          end |-> cs[1].timestamp,
          description |-> <<date_key(cs[Len(cs)].timestamp), date_key(cs[1].timestamp)>>]

\* Option<T>: None, or Some(v).
None == <<>>

Some(v) == <<v>>

(***************************************************************************)
(* CommitAnalyzer (git/mod.rs)                                             *)
(***************************************************************************)

\* extension_to_language.
extension_to_language(ext) ==
    CASE ext = "rs" -> "Rust"
      [] ext = "py" -> "Python"
      [] ext \in {"js", "jsx"} -> "JavaScript"
      [] ext \in {"ts", "tsx"} -> "TypeScript"
      [] ext = "go" -> "Go"
      [] ext = "java" -> "Java"
      [] ext = "c" -> "C"
      [] ext \in {"cpp", "cc", "cxx"} -> "C++"
      [] ext \in {"h", "hpp"} -> "C/C++ Header"
      [] ext = "rb" -> "Ruby"
      [] ext = "php" -> "PHP"
      [] ext = "swift" -> "Swift"
      [] ext = "kt" -> "Kotlin"
      [] ext = "cs" -> "C#"
      [] ext = "md" -> "Markdown"
      [] ext = "json" -> "JSON"
      [] ext \in {"yaml", "yml"} -> "YAML"
      [] ext = "toml" -> "TOML"
      [] ext = "xml" -> "XML"
      [] ext = "html" -> "HTML"
      [] ext = "css" -> "CSS"
      [] ext = "scss" -> "SCSS"
      [] ext = "sh" -> "Shell"
      [] OTHER -> "Other"

\* analyze_diff with the lines of each delta tallied under its language.
analyze_diff_lines_by_language(deltas) ==
    LET n == Len(deltas)
        known == {k \in 1..n : deltas[k].ext # None}
        langs == {extension_to_language(deltas[i].ext[1]) : i \in known}
        of(l) == {k \in known : extension_to_language(deltas[k].ext[1]) = l}
    IN [files_changed |-> n,
        insertions |-> SumSet(1..n, [i \in 1..n |-> deltas[i].insertions]),
        deletions |-> SumSet(1..n, [i \in 1..n |-> deltas[i].deletions]),
        language_changes |-> [l \in langs |-> [insertions |-> SumSet(of(l), [i \in of(l) |-> deltas[i].insertions]),
                                               deletions |-> SumSet(of(l), [i \in of(l) |-> deltas[i].deletions])]]]

\* analyze_diff over the deltas of the diff against the first parent.  A
\* delta is [ext, insertions, deletions]; ext is None for a delta without a
\* new-file path or whose path has no extension.  The file callback counts
\* the delta and enters its language with zero counts; the line callback
\* counts '+' and '-' lines into the commit totals only.
analyze_diff(deltas) ==
    LET n == Len(deltas)
        langs == {extension_to_language(deltas[i].ext[1]) : i \in {k \in 1..n : deltas[k].ext # None}}
    IN [files_changed |-> n,
        insertions |-> SumSet(1..n, [i \in 1..n |-> deltas[i].insertions]),
        deletions |-> SumSet(1..n, [i \in 1..n |-> deltas[i].deletions]),
        language_changes |-> [l \in langs |-> [insertions |-> 0, deletions |-> 0]]]

\* extract_commit_info of a commit object whose diff can be computed.  The
\* author signature is valid and the author time in range, so none of the
\* unwrap_or defaults is taken.
extract_commit_info(object) ==
    LET diff == analyze_diff(object.deltas)
    IN [hash |-> object.hash,
        author |-> object.who.author,
        email |-> object.who.email,
        timestamp |-> object.time,
        files_changed |-> diff.files_changed,
        insertions |-> diff.insertions,
        deletions |-> diff.deletions,
        language_changes |-> diff.language_changes]

\* revwalk.push_head(): HEAD of a repository without commits is unborn and
\* cannot be pushed.
push_head_ok(repository) == repository # <<>>

\* The limit test letting one more commit through.
limit_reached_after_one_more(limit, n) == limit # None /\ n > limit[1]

\* `if let Some(lim) = limit { if count >= lim { break } }`
limit_reached(limit, n) == limit # None /\ n >= limit[1]

(***************************************************************************)
(* Inputs of the analysis pipeline                                         *)
(***************************************************************************)

\* Monday 1970-01-05 22:00:00 UTC.
T0 == 4 * SecondsPerDay + 22 * 3600

\* Author times: 22:00:00, 23:00:30, 02:00:00 and 03:30:00 of the next day.
\* Gaps between them: 1h00m30s, 2h59m30s, 4h exactly, 4h29m30s, 5h30m,
\* and their negatives when a sequence is not newest-first.
Timestamps == {T0, T0 + 3630, T0 + 4 * 3600, T0 + 19800}

NoLanguages == <<>>

\* Diff statistics of a commit: files_changed, insertions, deletions and the
\* per-language entries.
NoChange == [files_changed |-> 0, insertions |-> 0, deletions |-> 0, language_changes |-> NoLanguages]

\* What the extractor produces: a touched language with zero counts.
Touch == [files_changed |-> 3, insertions |-> 20, deletions |-> 0,
          language_changes |-> [l \in {"Rust"} |-> [insertions |-> 0, deletions |-> 0]]]

Mixed == [files_changed |-> 5, insertions |-> 30, deletions |-> 10,
          language_changes |-> [l \in {"Rust", "Markdown"} |->
                                  IF l = "Rust" THEN [insertions |-> 20, deletions |-> 10]
                                  ELSE [insertions |-> 10, deletions |-> 0]]]

Six == [files_changed |-> 6, insertions |-> 10, deletions |-> 10, language_changes |-> NoLanguages]

Ten == [files_changed |-> 10, insertions |-> 40, deletions |-> 0,
        language_changes |-> [l \in {"Go"} |-> [insertions |-> 40, deletions |-> 0]]]

Eleven == [files_changed |-> 11, insertions |-> 40, deletions |-> 0,
           language_changes |-> [l \in {"Shell"} |-> [insertions |-> 40, deletions |-> 0]]]

Shapes == {NoChange, Touch, Mixed, Six, Ten, Eleven}

Authors == {[author |-> "Ann", email |-> "ann@x"],
            [author |-> "Bob", email |-> "bob@x"],
            [author |-> "Robert", email |-> "bob@x"],
            [author |-> "Cy", email |-> "cy@x"]}

\* CommitInfo (git/mod.rs); the message is read by no analyser and is left out.
CommitInfo(hash, who, timestamp, shape) ==
    [hash |-> hash,
     author |-> who.author,
     email |-> who.email,
     timestamp |-> timestamp,
     files_changed |-> shape.files_changed,
     insertions |-> shape.insertions,
     deletions |-> shape.deletions,
     language_changes |-> shape.language_changes]

Ann == [author |-> "Ann", email |-> "ann@x"]

\* Newest-first author times ten minutes apart, for the inputs that vary
\* something other than time.
SteadyTime(i) == T0 - (i - 1) * 600

\* Sequences that vary the author times (any order, clock skew included).
TimeInputs(n) ==
    {[i \in 1..n |-> CommitInfo(i, Ann, f[i][1], f[i][2])] : f \in [1..n -> Timestamps \X {NoChange, Touch}]}

\* Sequences that vary the diff statistics.
ChangeInputs(n) ==
    {[i \in 1..n |-> CommitInfo(i, Ann, SteadyTime(i), f[i])] : f \in [1..n -> Shapes]}

\* Sequences that vary the authors.
AuthorInputs(n) ==
    {[i \in 1..n |-> CommitInfo(i, f[i][1], SteadyTime(i), f[i][2])] : f \in [1..n -> Authors \X {Touch, Six}]}

\* Sequences that vary the dates (any order, clock skew included), with
\* author times on three consecutive days: 22:00:00, 22:01:00 a day later
\* and 22:02:00 two days later.
DayInputs(n) ==
    {[i \in 1..n |-> CommitInfo(i, Ann, f[i], NoChange)] :
        f \in [1..n -> {T0, T0 + SecondsPerDay + 60, T0 + 2 * SecondsPerDay + 120}]}

\* Newest-first sequences long enough to fill more hours than peak_hours
\* keeps, with author times in four hours of the clock: 22:00, 23:00, 00:00
\* and 01:00.
PeakInputs ==
    {cs \in {[i \in 1..(MaxCommits + 2) |-> CommitInfo(i, Ann, f[i], NoChange)] :
                f \in [1..(MaxCommits + 2) -> {T0, T0 + 3600, T0 + 2 * 3600, T0 + 3 * 3600}]} :
        \A i \in 1..(MaxCommits + 1) : cs[i].timestamp >= cs[i + 1].timestamp}

Inputs == PeakInputs \cup UNION {TimeInputs(n) \cup ChangeInputs(n) \cup AuthorInputs(n) \cup DayInputs(n) : n \in 0..MaxCommits}

\* --hourly-rate: a currency-agnostic positive rate.
HourlyRates == {10}

\* Readings of Utc::now().
Clock == {T0 + SecondsPerDay, T0 + SecondsPerDay + 1}

(***************************************************************************)
(* Inputs of the value calculator                                          *)
(***************************************************************************)

\* Estimated hours (in HourUnit): none, one hour, two and a half hours.
ValueHours == {0, HourUnit, 5 * (HourUnit \div 2)}

ValueRates == {1, 10, 25}

\* Total change volumes around every band edge, and the 1500 of the scenario.
ValueVolumes == {0, 99, 100, 499, 500, 1500, 1999, 2000, 2001}

(***************************************************************************)
(* Inputs of the extractor                                                 *)
(***************************************************************************)

\* Longest history of a repository.
MaxHistory == 3

RepoTimes == {T0, T0 + 3630}

NoDeltas == <<>>

RustAndUnknown == <<[ext |-> Some("rs"), insertions |-> 3, deletions |-> 1],
                    [ext |-> Some("xyz"), insertions |-> 2, deletions |-> 0]>>

Makefile == <<[ext |-> None, insertions |-> 1, deletions |-> 1]>>

\* A commit object of the repository, in walk order.  status tells which
\* step fails for it: "walk_error" (the revwalk yields Err for it),
\* "find_error" (find_commit fails), "diff_error" (analyze_diff fails), "ok".
ObjectKinds ==
    ({"ok"} \X RepoTimes \X {NoDeltas, RustAndUnknown, Makefile})
      \cup ({"walk_error", "find_error", "diff_error"} \X {T0} \X {NoDeltas})

Repositories(n) ==
    {[i \in 1..n |-> [hash |-> i, who |-> Ann, status |-> f[i][1], time |-> f[i][2], deltas |-> f[i][3]]] : f \in [1..n -> ObjectKinds]}

\* The outcome of parse_date_filters(cli): Err for a malformed date, else
\* the (from, to) pair.
DateFilters ==
    {[valid |-> TRUE, from |-> None, to |-> None],
     [valid |-> TRUE, from |-> Some(T0 + 3630), to |-> Some(T0 + 3630)]}

InvalidDates == [valid |-> FALSE, from |-> None, to |-> None]

Limits == {None, Some(0), Some(1), Some(2)}

CliArgs ==
    {[limit |-> l, dates |-> d] : l \in Limits, d \in DateFilters} \cup {[limit |-> None, dates |-> InvalidDates]}

(***************************************************************************)
(* MetricsCollector (code-cost, metrics/mod.rs)                            *)
(***************************************************************************)

\* A line is the sequence of its characters; whitespace is " " and "\t".
is_whitespace(c) == c \in {" ", "\t"}

\* str::trim.
trim(line) ==
    LET kept == {i \in 1..Len(line) : ~is_whitespace(line[i])}
    IN IF kept = {} THEN <<>>
       ELSE SubSeq(line, CHOOSE i \in kept : \A j \in kept : i <= j, CHOOSE i \in kept : \A j \in kept : i >= j)

\* str::starts_with.
starts_with(s, prefix) == Len(prefix) <= Len(s) /\ SubSeq(s, 1, Len(prefix)) = prefix

\* str::contains.
contains(s, pattern) == \E i \in 1..(Len(s) - Len(pattern) + 1) : SubSeq(s, i, i + Len(pattern) - 1) = pattern

\* detect_language: the language of a path's extension, None without an
\* extension or for an extension the table lacks.
detect_language(ext) ==
    IF ext = None THEN None
    ELSE LET e == ext[1]
         IN CASE e = "rs" -> Some("Rust")
              [] e = "py" -> Some("Python")
              [] e \in {"js", "jsx"} -> Some("JavaScript")
              [] e \in {"ts", "tsx"} -> Some("TypeScript")
              [] e = "go" -> Some("Go")
              [] e = "java" -> Some("Java")
              [] e = "c" -> Some("C")
              [] e \in {"cpp", "cc", "cxx"} -> Some("C++")
              [] e \in {"h", "hpp"} -> Some("C/C++ Header")
              [] e = "cs" -> Some("C#")
              [] e = "rb" -> Some("Ruby")
              [] e = "php" -> Some("PHP")
              [] e = "swift" -> Some("Swift")
              [] e \in {"kt", "kts"} -> Some("Kotlin")
              [] e = "scala" -> Some("Scala")
              [] e \in {"sh", "bash"} -> Some("Shell")
              [] e = "sql" -> Some("SQL")
              [] e = "html" -> Some("HTML")
              [] e = "css" -> Some("CSS")
              [] e \in {"scss", "sass"} -> Some("SCSS")
              [] e \in {"md", "markdown"} -> Some("Markdown")
              [] e \in {"yaml", "yml"} -> Some("YAML")
              [] e = "json" -> Some("JSON")
              [] e = "toml" -> Some("TOML")
              [] e = "xml" -> Some("XML")
              [] OTHER -> None

\* get_language_weight of metrics/mod.rs, in tenths.
metrics_language_weight(lang) ==
    CASE lang = "Rust" -> 15
      [] lang \in {"C++", "C"} -> 14
      [] lang = "Go" -> 13
      [] lang \in {"Java", "C#", "Scala"} -> 12
      [] lang \in {"TypeScript", "Swift", "Kotlin"} -> 12
      [] lang \in {"Python", "Ruby", "PHP"} -> 11
      [] lang = "JavaScript" -> 10
      [] lang \in {"Shell", "SQL"} -> 9
      [] lang \in {"HTML", "CSS", "SCSS"} -> 7
      [] lang \in {"Markdown", "YAML", "JSON", "TOML", "XML"} -> 5
      [] OTHER -> 10

\* is_test_file: whether the lower-cased path contains "test", "spec" or
\* "__tests__"; an entry of the tree carries the answer for its path.
is_test_file(entry) == entry.test

\* The README test of collect: the lower-cased file name starts with "readme".
is_readme(entry) == entry.readme

\* The (single_comment, multi_start, multi_end) match of count_line_types.
comment_markers(lang) ==
    CASE lang \in {"Rust", "C++", "C", "Go", "Java", "C#", "JavaScript", "TypeScript", "Swift", "Kotlin", "Scala", "PHP"} ->
           [single_comment |-> <<"/", "/">>, multi_start |-> <<"/", "*">>, multi_end |-> <<"*", "/">>]
      [] lang \in {"Python", "Ruby", "Shell"} ->
           [single_comment |-> <<"#">>, multi_start |-> <<>>, multi_end |-> <<>>]
      [] lang \in {"HTML", "XML"} ->
           [single_comment |-> <<>>, multi_start |-> <<"<", "!", "-", "-">>, multi_end |-> <<"-", "-", ">">>]
      [] lang \in {"CSS", "SCSS"} ->
           [single_comment |-> <<>>, multi_start |-> <<"/", "*">>, multi_end |-> <<"*", "/">>]
      [] OTHER ->
           [single_comment |-> <<>>, multi_start |-> <<>>, multi_end |-> <<>>]

\* One pass of the loop with the single-line marker looked for at the start
\* of the untrimmed line.
count_line_marker_at_column_one(acc, line, markers) ==
    LET trimmed == trim(line)
    IN IF trimmed = <<>>
       THEN [acc EXCEPT !.blanks = @ + 1]
       ELSE IF markers.multi_start # <<>> /\ contains(trimmed, markers.multi_start)
       THEN [acc EXCEPT !.comments = @ + 1, !.in_multiline_comment = ~contains(trimmed, markers.multi_end)]
       ELSE IF acc.in_multiline_comment
       THEN [acc EXCEPT !.comments = @ + 1,
                        !.in_multiline_comment = ~(markers.multi_end # <<>> /\ contains(trimmed, markers.multi_end))]
       ELSE IF markers.single_comment # <<>> /\ starts_with(line, markers.single_comment)
       THEN [acc EXCEPT !.comments = @ + 1]
       ELSE [acc EXCEPT !.code = @ + 1]

\* One pass of the loop with in_multiline_comment never set by a line that
\* holds the block-start marker.
count_line_mode_never_set(acc, line, markers) ==
    LET trimmed == trim(line)
    IN IF trimmed = <<>>
       THEN [acc EXCEPT !.blanks = @ + 1]
       ELSE IF markers.multi_start # <<>> /\ contains(trimmed, markers.multi_start)
       THEN [acc EXCEPT !.comments = @ + 1]
       ELSE IF markers.single_comment # <<>> /\ starts_with(trimmed, markers.single_comment)
       THEN [acc EXCEPT !.comments = @ + 1]
       ELSE [acc EXCEPT !.code = @ + 1]

\* One pass of the loop that leaves blank lines uncounted.
count_line_skipping_blanks(acc, line, markers) ==
    LET trimmed == trim(line)
    IN IF trimmed = <<>>
       THEN acc
       ELSE IF markers.multi_start # <<>> /\ contains(trimmed, markers.multi_start)
       THEN [acc EXCEPT !.comments = @ + 1, !.in_multiline_comment = ~contains(trimmed, markers.multi_end)]
       ELSE IF acc.in_multiline_comment
       THEN [acc EXCEPT !.comments = @ + 1,
                        !.in_multiline_comment = ~(markers.multi_end # <<>> /\ contains(trimmed, markers.multi_end))]
       ELSE IF markers.single_comment # <<>> /\ starts_with(trimmed, markers.single_comment)
       THEN [acc EXCEPT !.comments = @ + 1]
       ELSE [acc EXCEPT !.code = @ + 1]

\* One pass of the loop of count_line_types over `line`; acc holds code,
\* comments, blanks and in_multiline_comment.
count_line(acc, line, markers) ==
    LET trimmed == trim(line)
    IN IF trimmed = <<>>
       THEN [acc EXCEPT !.blanks = @ + 1]
       ELSE IF markers.multi_start # <<>> /\ contains(trimmed, markers.multi_start)
       THEN [acc EXCEPT !.comments = @ + 1, !.in_multiline_comment = ~contains(trimmed, markers.multi_end)]
       ELSE IF acc.in_multiline_comment
       THEN [acc EXCEPT !.comments = @ + 1,
                        !.in_multiline_comment = ~(markers.multi_end # <<>> /\ contains(trimmed, markers.multi_end))]
       ELSE IF markers.single_comment # <<>> /\ starts_with(trimmed, markers.single_comment)
       THEN [acc EXCEPT !.comments = @ + 1]
       ELSE [acc EXCEPT !.code = @ + 1]

RECURSIVE count_lines_from(_, _, _, _)
\* The `for line in lines` loop of count_line_types from line i on.
count_lines_from(lines, i, acc, markers) ==
    IF i > Len(lines) THEN acc
    ELSE count_lines_from(lines, i + 1, count_line(acc, lines[i], markers), markers)

\* count_line_types(lines, lang) -> (code, comments, blanks).
count_line_types(lines, lang) ==
    LET acc == count_lines_from(lines, 1, [code |-> 0, comments |-> 0, blanks |-> 0, in_multiline_comment |-> FALSE], comment_markers(lang))
    IN [code |-> acc.code, comments |-> acc.comments, blanks |-> acc.blanks]

\* language_map.entry(lang).or_insert((0, 0)) with its two increments.
add_to_language_map(map, lang, line_count) ==
    LET old == IF lang \in DOMAIN map THEN map[lang] ELSE [lines |-> 0, files |-> 0]
    IN [l \in DOMAIN map \cup {lang} |->
          IF l = lang THEN [lines |-> old.lines + line_count, files |-> old.files + 1] ELSE map[l]]

\* The language_stats of collect: the map's entries in iteration order,
\* each with its weight, sorted by lines, largest first.
language_stats_of(map, order) ==
    LET sorted == StableSortDesc(order, [l \in DOMAIN map |-> map[l].lines])
    IN [i \in 1..Len(sorted) |->
          [name |-> sorted[i], lines |-> map[sorted[i]].lines, files |-> map[sorted[i]].files,
           weight |-> metrics_language_weight(sorted[i])]]

(***************************************************************************)
(* Inputs of the metrics collector                                         *)
(***************************************************************************)

\* Most lines of a file.
MaxLines == 3

\* Most entries of a walked tree.
MaxEntries == 3

BlankLine == <<>>

SpacesLine == <<" ", "\t">>

\* "// c"
LineComment == <<"/", "/", " ", "c">>

\* "  // c"
IndentedComment == <<" ", " ", "/", "/", " ", "c">>

\* "// /*": a line comment that holds a block-comment opener
CommentWithOpener == <<"/", "/", " ", "/", "*">>

\* "# c"
HashComment == <<"#", " ", "c">>

\* "fn main() {}"
CodeLine == <<"f", "n", " ", "m", "a", "i", "n", "(", ")", " ", "{", "}">>

\* "/* a"
BlockOpen == <<"/", "*", " ", "a">>

\* "b */"
BlockClose == <<"b", " ", "*", "/">>

\* The nine lines above, and "/* c */", "<!-- a" and "b -->".
LineKinds ==
    {BlankLine, SpacesLine, LineComment, IndentedComment, CommentWithOpener, HashComment, CodeLine, BlockOpen, BlockClose,
     <<"/", "*", " ", "c", " ", "*", "/">>,
     <<"<", "!", "-", "-", " ", "a">>,
     <<"b", " ", "-", "-", ">">>}

\* The file of the worked example: "", "// c", "fn main() {}".
ExampleLines == <<BlankLine, LineComment, CodeLine>>

\* An entry the filtered walk yields: a regular file with the extension of
\* its path, whether its name starts with "readme", whether its path looks
\* like a test, and its lines (None when read_to_string fails); a
\* directory; or an Err item of the walk.
File(ext, readme, test, content) ==
    [kind |-> "file", ext |-> ext, readme |-> readme, test |-> test, content |-> content]

Directory == [kind |-> "dir", ext |-> None, readme |-> FALSE, test |-> FALSE, content |-> None]

WalkDirError == [kind |-> "error", ext |-> None, readme |-> FALSE, test |-> FALSE, content |-> None]

\* Every extension of the two language tables, and one of neither.
Extensions ==
    {"rs", "py", "js", "jsx", "ts", "tsx", "go", "java", "c", "cpp", "cc", "cxx", "h", "hpp", "cs", "rb",
     "php", "swift", "kt", "kts", "scala", "sh", "bash", "sql", "html", "css", "scss", "sass", "md",
     "markdown", "yaml", "yml", "json", "toml", "xml", "xyz"}

\* Trees of one file, of each comment style, with every choice of lines.
LineTrees ==
    {<<File(Some(e), FALSE, FALSE, Some(ls))>> :
        e \in {"rs", "py", "html", "md"}, ls \in UNION {[1..n -> LineKinds] : n \in 0..MaxLines}}

\* Trees of one file of the example's lines, of each extension.
ExtensionTrees == {<<File(Some(e), FALSE, FALSE, Some(ExampleLines))>> : e \in Extensions}

EntryKinds ==
    {File(Some("rs"), FALSE, FALSE, Some(ExampleLines)),
     File(Some("rs"), FALSE, TRUE, Some(<<CodeLine>>)),
     File(Some("rs"), FALSE, FALSE, None),
     File(Some("py"), FALSE, TRUE, None),
     File(Some("py"), FALSE, FALSE, Some(<<HashComment, CodeLine>>)),
     File(Some("xyz"), FALSE, TRUE, Some(<<CodeLine, CodeLine>>)),
     File(None, TRUE, FALSE, Some(<<CodeLine>>)),
     File(Some("md"), TRUE, FALSE, Some(<<CodeLine, BlankLine>>)),
     Directory,
     WalkDirError}

\* Trees of several entries.
EntryTrees == UNION {[1..n -> EntryKinds] : n \in 0..MaxEntries}

Trees == LineTrees \cup ExtensionTrees \cup EntryTrees

(***************************************************************************)
(* The orchestrators: main of work-summary and of code-cost, and           *)
(* TotalSummary (summary/mod.rs)                                           *)
(***************************************************************************)

\* Vec::push with the new element put in front.
push_in_front(vec, item) == <<item>> \o vec

\* Vec::push.
push(vec, item) == Append(vec, item)

\* RepositorySummary::new(path, commits, estimated_hours, hourly_rate); the
\* display name is left out.
repository_summary(path, cs, estimated, rate, now1, now2, order, hour_order, day_order) ==
    [path |-> path,
     period |-> period_of(cs, now1, now2),
     commits |-> cs,
     analysis |-> work_analysis(cs, estimated, rate, order),
     patterns |-> analyze(cs, hour_order, day_order)]

\* from_repositories with the contributors of each repository added up.
from_repositories_adding_contributors(repositories) ==
    LET n == Len(repositories)
    IN [repositories |-> repositories,
        total_commits |-> SumSet(1..n, [i \in 1..n |-> Len(repositories[i].commits)]),
        total_hours |-> SumSet(1..n, [i \in 1..n |-> repositories[i].analysis.estimated_hours]),
        total_value |-> SumSet(1..n, [i \in 1..n |-> repositories[i].analysis.value_estimate.recommended_value]),
        total_contributors |-> SumSet(1..n, [i \in 1..n |-> repositories[i].analysis.unique_contributors])]

\* TotalSummary::from_repositories.
from_repositories(repositories) ==
    LET n == Len(repositories)
        all_contributors == UNION {{repositories[i].commits[j].email : j \in 1..Len(repositories[i].commits)} : i \in 1..n}
    IN [repositories |-> repositories,
        total_commits |-> SumSet(1..n, [i \in 1..n |-> Len(repositories[i].commits)]),
        total_hours |-> SumSet(1..n, [i \in 1..n |-> repositories[i].analysis.estimated_hours]),
        total_value |-> SumSet(1..n, [i \in 1..n |-> repositories[i].analysis.value_estimate.recommended_value]),
        total_contributors |-> Cardinality(all_contributors)]

\* GitAnalyzer::analyze of code-cost over the commits reachable from HEAD:
\* the count, the distinct author emails and the age in whole days.
git_stats(cs) ==
    LET n == Len(cs)
        times == {cs[i].timestamp : i \in 1..n}
        first_commit_time == CHOOSE t \in times : \A u \in times : t <= u
        last_commit_time == CHOOSE t \in times : \A u \in times : t >= u
    IN [commit_count |-> n,
        contributor_count |-> Cardinality({cs[i].email : i \in 1..n}),
        age_in_days |-> IF n = 0 THEN 0 ELSE TruncDiv(last_commit_time - first_commit_time, SecondsPerDay)]

(***************************************************************************)
(* Inputs of the orchestrators                                             *)
(***************************************************************************)

\* Most paths on a command line.
MaxPaths == 3

Bob == [author |-> "Bob", email |-> "bob@x"]

Robert == [author |-> "Robert", email |-> "bob@x"]

\* What is at a path: something that cannot be analyzed (not a repository,
\* or one whose walk fails), or a repository with its commits, newest first.
NotARepository == [ok |-> FALSE, commits |-> <<>>]

RepoAnnBob == [ok |-> TRUE, commits |-> <<CommitInfo(1, Ann, T0, Touch), CommitInfo(2, Bob, T0 - 600, Six)>>]

RepoRobert == [ok |-> TRUE, commits |-> <<CommitInfo(1, Robert, T0 + 3630, Touch)>>]

RepoAnn == [ok |-> TRUE, commits |-> <<CommitInfo(1, Ann, T0 + 3630, Mixed), CommitInfo(2, Ann, T0, NoChange)>>]

PathKinds == {NotARepository, RepoAnnBob, RepoRobert, RepoAnn}

\* The paths iterated by main, numbered in command-line order.  Without a
\* PATH argument both tools iterate over the single path ".".
PathLists(n) ==
    {[i \in 1..n |-> [id |-> i, ok |-> f[i].ok, commits |-> f[i].commits]] : f \in [1..n -> PathKinds]}

\* --export: absent, or a file that can (TRUE) or cannot (FALSE) be written.
Exports == {None, Some(TRUE), Some(FALSE)}

Tools == {"work-summary", "code-cost"}

(***************************************************************************)
(* State                                                                   *)
(***************************************************************************)

VARIABLES
    commits,          \* the Vec<CommitInfo> under analysis, newest first
    hourly_rate,      \* cli.hourly_rate
    pc,               \* position in analyze_repository / RepositorySummary::new
    estimated_hours,  \* Option: result of the estimator
    sessions,         \* Option: result of estimate_session_hours
    period,           \* Option: RepositorySummary.period
    analysis,         \* Option: RepositorySummary.analysis
    patterns,         \* Option: RepositorySummary.patterns
    calc_args,        \* arguments of ValueEstimate::calculate
    calc_result,      \* Option: the ValueEstimate returned
    repository,       \* the commit objects reachable from HEAD, in walk order
    is_repository,    \* whether Repository::open succeeds on the path
    cli,              \* the limit and the parsed date filters of the command line
    xpc,              \* position in analyze_repository / analyze_commits
    window,           \* Option: (from_date, to_date) handed to analyze_commits
    walk_pos,         \* index of the next object the revwalk yields
    extracted,        \* the local Vec `commits` of analyze_commits
    count,            \* the local `count` of analyze_commits
    walk_result,      \* "none", or what analyze_commits returned: "Ok" / "Err"
    tree,             \* the entries the filtered WalkDir yields, in walk order
    entry_pos,        \* index of the next entry of the walk
    total_lines,      \* the locals of MetricsCollector::collect
    code_lines,
    comment_lines,
    blank_lines,
    total_files,
    test_file_count,
    has_readme,
    language_map,     \* language name -> (lines, files)
    collect_result,   \* "none", or what collect returned: "Ok" / "Err"
    metrics,          \* Option: the Metrics returned
    tool,             \* which main runs: "work-summary" or "code-cost"
    paths,            \* the paths main iterates over
    cli_export,       \* cli.export
    path_pos,         \* index of the next path of the loop
    summaries,        \* the Vec `summaries` (work-summary) / `results` (code-cost)
    total_summary,    \* Option: the TotalSummary of work-summary
    main_result       \* "none", or what main returned: "Ok" / "Err"

pipelineVars == <<commits, hourly_rate, pc, estimated_hours, sessions, period, analysis, patterns>>

valueVars == <<calc_args, calc_result>>

extractVars == <<repository, is_repository, cli, xpc, window, walk_pos, extracted, count, walk_result>>

counterVars == <<total_lines, code_lines, comment_lines, blank_lines, total_files, test_file_count, has_readme, language_map>>

metricsVars == <<tree, entry_pos, counterVars, collect_result, metrics>>

mainVars == <<tool, paths, cli_export, path_pos, summaries, total_summary, main_result>>

vars == <<pipelineVars, valueVars, extractVars, metricsVars, mainVars>>

\* The parts of the state before anything ran.
PipelineStart ==
    /\ hourly_rate \in HourlyRates
    /\ pc = "start"
    /\ estimated_hours = None
    /\ sessions = None
    /\ period = None
    /\ analysis = None
    /\ patterns = None

ValueStart == calc_result = None

ExtractStart ==
    /\ xpc = "start"
    /\ window = None
    /\ walk_pos = 1
    /\ extracted = <<>>
    /\ count = 0
    /\ walk_result = "none"

NoValueInput == calc_args = [estimated_hours |-> 0, base_hourly_rate |-> 1, total_changes |-> 0]

NoExtractInput ==
    /\ repository = <<>>
    /\ is_repository = FALSE
    /\ cli = [limit |-> None, dates |-> [valid |-> TRUE, from |-> None, to |-> None]]

MetricsStart ==
    /\ entry_pos = 1
    /\ total_lines = 0
    /\ code_lines = 0
    /\ comment_lines = 0
    /\ blank_lines = 0
    /\ total_files = 0
    /\ test_file_count = 0
    /\ has_readme = FALSE
    /\ language_map = <<>>
    /\ collect_result = "none"
    /\ metrics = None

NoMetricsInput == tree = <<>>

MainStart ==
    /\ path_pos = 1
    /\ summaries = <<>>
    /\ total_summary = None
    /\ main_result = "none"

NoMainInput ==
    /\ tool = "work-summary"
    /\ paths = <<>>
    /\ cli_export = None

(***************************************************************************)
(* The analysis pipeline: analyze_repository after the extraction and      *)
(* RepositorySummary::new, and estimate_session_hours on the same commits  *)
(***************************************************************************)

Init ==
    /\ commits \in Inputs
    /\ PipelineStart
    /\ NoValueInput /\ ValueStart
    /\ NoExtractInput /\ ExtractStart
    /\ NoMetricsInput /\ MetricsStart
    /\ NoMainInput /\ MainStart

\* analyze_repository after the extraction: 0.0 for no commits, else
\* TimeEstimator::estimate_work_hours.
EstimateHours ==
    /\ pc = "start"
    /\ estimated_hours' = Some(IF commits = <<>> THEN 0 ELSE estimate_work_hours(commits))
    /\ pc' = "estimated"
    /\ UNCHANGED <<commits, hourly_rate, sessions, period, analysis, patterns, valueVars, extractVars, metricsVars, mainVars>>

\* RepositorySummary::new, first part: the period and WorkAnalysis::from_commits.
BuildAnalysis ==
    /\ pc = "estimated"
    /\ \E now1, now2 \in Clock :
         /\ now1 <= now2
         /\ period' = Some(period_of(commits, now1, now2))
    /\ \E order \in Orders(ContributorKeys(commits)) :
         analysis' = Some(work_analysis(commits, estimated_hours[1], hourly_rate, order))
    /\ pc' = "analysed"
    /\ UNCHANGED <<commits, hourly_rate, estimated_hours, sessions, patterns, valueVars, extractVars, metricsVars, mainVars>>

\* RepositorySummary::new, second part: WorkPatterns::analyze.
BuildPatterns ==
    /\ pc = "analysed"
    /\ \E hour_order \in Orders(DOMAIN hourly_distribution(commits)) :
         \E day_order \in Orders(DOMAIN daily_distribution(commits)) :
           patterns' = Some(analyze(commits, hour_order, day_order))
    /\ pc' = "done"
    /\ UNCHANGED <<commits, hourly_rate, estimated_hours, sessions, period, analysis, valueVars, extractVars, metricsVars, mainVars>>

\* TimeEstimator::estimate_session_hours on the same commits.
SessionHours ==
    /\ sessions = None
    /\ sessions' = Some(estimate_session_hours(commits))
    /\ UNCHANGED <<commits, hourly_rate, pc, estimated_hours, period, analysis, patterns, valueVars, extractVars, metricsVars, mainVars>>

Next == EstimateHours \/ BuildAnalysis \/ BuildPatterns \/ SessionHours

Spec == Init /\ [][Next]_vars

(***************************************************************************)
(* The value calculator on its own                                         *)
(***************************************************************************)

InitValue ==
    /\ commits = <<>>
    /\ PipelineStart
    /\ calc_args \in [estimated_hours : ValueHours, base_hourly_rate : ValueRates, total_changes : ValueVolumes]
    /\ ValueStart
    /\ NoExtractInput /\ ExtractStart
    /\ NoMetricsInput /\ MetricsStart
    /\ NoMainInput /\ MainStart

\* ValueEstimate::calculate(estimated_hours, base_hourly_rate, total_changes).
Calculate ==
    /\ calc_result = None
    /\ calc_result' = Some(calculate(calc_args.estimated_hours, calc_args.base_hourly_rate, calc_args.total_changes))
    /\ UNCHANGED <<calc_args, pipelineVars, extractVars, metricsVars, mainVars>>

NextValue == Calculate

SpecValue == InitValue /\ [][NextValue]_vars

(***************************************************************************)
(* The extraction: analyze_repository up to the return of analyze_commits  *)
(***************************************************************************)

InitExtract ==
    /\ commits = <<>>
    /\ PipelineStart
    /\ NoValueInput /\ ValueStart
    /\ \/ /\ is_repository = TRUE
          /\ repository \in UNION {Repositories(n) : n \in 0..MaxHistory}
          /\ cli \in CliArgs
       \/ NoExtractInput
    /\ ExtractStart
    /\ NoMetricsInput /\ MetricsStart
    /\ NoMainInput /\ MainStart

\* CommitAnalyzer::new(path): Repository::open, the error handed to main.
OpenRepository ==
    /\ xpc = "start"
    /\ xpc' = IF is_repository THEN "opened" ELSE "failed"
    /\ UNCHANGED <<repository, is_repository, cli, window, walk_pos, extracted, count, walk_result, pipelineVars, valueVars, metricsVars, mainVars>>

\* parse_date_filters(cli)?
ParseDateFilters ==
    /\ xpc = "opened"
    /\ IF cli.dates.valid
       THEN /\ window' = Some(<<cli.dates.from, cli.dates.to>>)
            /\ xpc' = "parsed"
       ELSE /\ window' = window
            /\ xpc' = "failed"
    /\ UNCHANGED <<repository, is_repository, cli, walk_pos, extracted, count, walk_result, pipelineVars, valueVars, metricsVars, mainVars>>

\* analyze_commits(cli.limit, from_date, to_date): revwalk()? and
\* push_head()?.  The function declared in git/mod.rs takes the limit alone;
\* its body never reads a time window.
StartWalk ==
    /\ xpc = "parsed"
    /\ IF push_head_ok(repository)
       THEN /\ xpc' = "walking"
            /\ walk_result' = walk_result
       ELSE /\ xpc' = "failed"
            /\ walk_result' = "Err"
    /\ UNCHANGED <<repository, is_repository, cli, window, walk_pos, extracted, count, pipelineVars, valueVars, metricsVars, mainVars>>

\* The revwalk is exhausted: the loop ends and Ok(commits) is returned.
WalkExhausted ==
    /\ xpc = "walking"
    /\ walk_pos > Len(repository)
    /\ xpc' = "returned"
    /\ walk_result' = "Ok"
    /\ UNCHANGED <<repository, is_repository, cli, window, walk_pos, extracted, count, pipelineVars, valueVars, metricsVars, mainVars>>

\* count >= lim: break, and Ok(commits) is returned.
LimitReached ==
    /\ xpc = "walking"
    /\ walk_pos <= Len(repository)
    /\ limit_reached(cli.limit, count)
    /\ xpc' = "returned"
    /\ walk_result' = "Ok"
    /\ UNCHANGED <<repository, is_repository, cli, window, walk_pos, extracted, count, pipelineVars, valueVars, metricsVars, mainVars>>

\* `let oid = oid?;` on an Err item of the revwalk: analyze_commits returns Err.
WalkError ==
    /\ xpc = "walking"
    /\ walk_pos <= Len(repository)
    /\ ~limit_reached(cli.limit, count)
    /\ repository[walk_pos].status = "walk_error"
    /\ xpc' = "failed"
    /\ walk_result' = "Err"
    /\ extracted' = <<>>
    /\ UNCHANGED <<repository, is_repository, cli, window, walk_pos, count, pipelineVars, valueVars, metricsVars, mainVars>>

\* `self.repo.find_commit(oid)?` fails: analyze_commits returns Err.
FindCommitError ==
    /\ xpc = "walking"
    /\ walk_pos <= Len(repository)
    /\ ~limit_reached(cli.limit, count)
    /\ repository[walk_pos].status = "find_error"
    /\ xpc' = "failed"
    /\ walk_result' = "Err"
    /\ extracted' = <<>>
    /\ UNCHANGED <<repository, is_repository, cli, window, walk_pos, count, pipelineVars, valueVars, metricsVars, mainVars>>

\* extract_commit_info returns Ok(info): push it and count it.
ExtractOk ==
    /\ xpc = "walking"
    /\ walk_pos <= Len(repository)
    /\ ~limit_reached(cli.limit, count)
    /\ repository[walk_pos].status = "ok"
    /\ extracted' = Append(extracted, extract_commit_info(repository[walk_pos]))
    /\ count' = count + 1
    /\ walk_pos' = walk_pos + 1
    /\ UNCHANGED <<repository, is_repository, cli, xpc, window, walk_result, pipelineVars, valueVars, metricsVars, mainVars>>

\* extract_commit_info returns Err (analyze_diff failed): the commit is skipped.
ExtractSkipped ==
    /\ xpc = "walking"
    /\ walk_pos <= Len(repository)
    /\ ~limit_reached(cli.limit, count)
    /\ repository[walk_pos].status = "diff_error"
    /\ walk_pos' = walk_pos + 1
    /\ UNCHANGED <<repository, is_repository, cli, xpc, window, extracted, count, walk_result, pipelineVars, valueVars, metricsVars, mainVars>>

NextExtract ==
    \/ OpenRepository
    \/ ParseDateFilters
    \/ StartWalk
    \/ WalkExhausted
    \/ LimitReached
    \/ WalkError
    \/ FindCommitError
    \/ ExtractOk
    \/ ExtractSkipped

SpecExtract == InitExtract /\ [][NextExtract]_vars

(***************************************************************************)
(* The line metrics: MetricsCollector::collect, one entry of the walk at a *)
(* time                                                                    *)
(***************************************************************************)

InitMetrics ==
    /\ commits = <<>>
    /\ PipelineStart
    /\ NoValueInput /\ ValueStart
    /\ NoExtractInput /\ ExtractStart
    /\ tree \in Trees
    /\ MetricsStart
    /\ NoMainInput /\ MainStart

\* The entry the loop body is about to see.
at_entry == collect_result = "none" /\ entry_pos <= Len(tree)

\* `let entry = entry?;` on an Err item of the walk: collect returns Err.
WalkEntryError ==
    /\ at_entry
    /\ tree[entry_pos].kind = "error"
    /\ collect_result' = "Err"
    /\ UNCHANGED <<tree, entry_pos, counterVars, metrics, pipelineVars, valueVars, extractVars, mainVars>>

\* `if !path.is_file() { continue; }`
SkipNonFile ==
    /\ at_entry
    /\ tree[entry_pos].kind = "dir"
    /\ entry_pos' = entry_pos + 1
    /\ UNCHANGED <<tree, counterVars, collect_result, metrics, pipelineVars, valueVars, extractVars, mainVars>>

\* A file whose language detect_language does not know: after the README
\* test, `continue`.
UnrecognizedFile ==
    /\ at_entry
    /\ tree[entry_pos].kind = "file"
    /\ detect_language(tree[entry_pos].ext) = None
    /\ has_readme' = (has_readme \/ is_readme(tree[entry_pos]))
    /\ entry_pos' = entry_pos + 1
    /\ UNCHANGED <<tree, total_lines, code_lines, comment_lines, blank_lines, total_files, test_file_count, language_map>>
    /\ UNCHANGED <<collect_result, metrics, pipelineVars, valueVars, extractVars, mainVars>>

\* A file of a known language that read_to_string decodes: it is counted
\* and its lines are classified.
CountFile ==
    /\ at_entry
    /\ tree[entry_pos].kind = "file"
    /\ detect_language(tree[entry_pos].ext) # None
    /\ tree[entry_pos].content # None
    /\ LET entry == tree[entry_pos]
           lang_name == detect_language(entry.ext)[1]
           lines == entry.content[1]
           counts == count_line_types(lines, lang_name)
       IN /\ has_readme' = (has_readme \/ is_readme(entry))
          /\ total_files' = total_files + 1
          /\ test_file_count' = test_file_count + (IF is_test_file(entry) THEN 1 ELSE 0)
          /\ total_lines' = total_lines + Len(lines)
          /\ code_lines' = code_lines + counts.code
          /\ comment_lines' = comment_lines + counts.comments
          /\ blank_lines' = blank_lines + counts.blanks
          /\ language_map' = add_to_language_map(language_map, lang_name, Len(lines))
    /\ entry_pos' = entry_pos + 1
    /\ UNCHANGED <<tree, collect_result, metrics, pipelineVars, valueVars, extractVars, mainVars>>

\* A file of a known language that read_to_string cannot decode: the file
\* counters were already incremented, the line counters are left alone.
UndecodableFile ==
    /\ at_entry
    /\ tree[entry_pos].kind = "file"
    /\ detect_language(tree[entry_pos].ext) # None
    /\ tree[entry_pos].content = None
    /\ has_readme' = (has_readme \/ is_readme(tree[entry_pos]))
    /\ total_files' = total_files + 1
    /\ test_file_count' = test_file_count + (IF is_test_file(tree[entry_pos]) THEN 1 ELSE 0)
    /\ entry_pos' = entry_pos + 1
    /\ UNCHANGED <<tree, total_lines, code_lines, comment_lines, blank_lines, language_map>>
    /\ UNCHANGED <<collect_result, metrics, pipelineVars, valueVars, extractVars, mainVars>>

\* The walk is over: language_stats is built from the map, sorted, and
\* Ok(Metrics) is returned.
FinishCollect ==
    /\ collect_result = "none"
    /\ entry_pos > Len(tree)
    /\ \E order \in Orders(DOMAIN language_map) :
         metrics' = Some([total_lines |-> total_lines,
                          code_lines |-> code_lines,
                          comment_lines |-> comment_lines,
                          blank_lines |-> blank_lines,
                          total_files |-> total_files,
                          test_file_count |-> test_file_count,
                          has_readme |-> has_readme,
                          language_stats |-> language_stats_of(language_map, order)])
    /\ collect_result' = "Ok"
    /\ UNCHANGED <<tree, entry_pos, counterVars, pipelineVars, valueVars, extractVars, mainVars>>

NextMetrics ==
    \/ WalkEntryError
    \/ SkipNonFile
    \/ UnrecognizedFile
    \/ CountFile
    \/ UndecodableFile
    \/ FinishCollect

SpecMetrics == InitMetrics /\ [][NextMetrics]_vars

(***************************************************************************)
(* The orchestrators: the loop of main over the paths, and what follows it *)
(***************************************************************************)

InitMain ==
    /\ commits = <<>>
    /\ PipelineStart
    /\ NoValueInput /\ ValueStart
    /\ NoExtractInput /\ ExtractStart
    /\ NoMetricsInput /\ MetricsStart
    /\ tool \in Tools
    /\ paths \in UNION {PathLists(n) : n \in 1..MaxPaths}
    /\ cli_export \in Exports
    /\ MainStart

\* The path the loop body is about to analyze.
at_path == main_result = "none" /\ path_pos <= Len(paths)

\* analyze_repository (work-summary) or analyzer.analyze (code-cost) returns
\* Ok: the result is pushed.
AnalyzeOk ==
    /\ at_path
    /\ paths[path_pos].ok
    /\ LET path == paths[path_pos]
           cs == path.commits
       IN IF tool = "work-summary"
          THEN \E now1, now2 \in Clock :
                 \E order \in Orders(ContributorKeys(cs)) :
                   \E hour_order \in Orders(DOMAIN hourly_distribution(cs)) :
                     \E day_order \in Orders(DOMAIN daily_distribution(cs)) :
                       /\ now1 <= now2
                       /\ summaries' = push(summaries,
                             repository_summary(path.id, cs, IF cs = <<>> THEN 0 ELSE estimate_work_hours(cs),
                                                hourly_rate, now1, now2, order, hour_order, day_order))
          ELSE summaries' = push(summaries, [path |-> path.id, analysis |-> git_stats(cs)])
    /\ path_pos' = path_pos + 1
    /\ UNCHANGED <<tool, paths, cli_export, total_summary, main_result, pipelineVars, valueVars, extractVars, metricsVars>>

\* The analysis of the path returns Err: the error is printed and the loop
\* goes on.
AnalyzeFailed ==
    /\ at_path
    /\ ~paths[path_pos].ok
    /\ path_pos' = path_pos + 1
    /\ UNCHANGED <<tool, paths, cli_export, summaries, total_summary, main_result, pipelineVars, valueVars, extractVars, metricsVars>>

\* After the loop, nothing was collected: a notice, and main returns Ok.
NoneAnalyzed ==
    /\ main_result = "none"
    /\ path_pos > Len(paths)
    /\ summaries = <<>>
    /\ main_result' = "Ok"
    /\ UNCHANGED <<tool, paths, cli_export, path_pos, summaries, total_summary, pipelineVars, valueVars, extractVars, metricsVars>>

\* After the loop, with results: work-summary builds the TotalSummary, both
\* tools print, and the export, when asked for, decides what main returns.
Summarize ==
    /\ main_result = "none"
    /\ path_pos > Len(paths)
    /\ summaries # <<>>
    /\ total_summary' = IF tool = "work-summary" THEN Some(from_repositories(summaries)) ELSE None
    /\ main_result' = IF cli_export = Some(FALSE) THEN "Err" ELSE "Ok"
    /\ UNCHANGED <<tool, paths, cli_export, path_pos, summaries, pipelineVars, valueVars, extractVars, metricsVars>>

NextMain == AnalyzeOk \/ AnalyzeFailed \/ NoneAnalyzed \/ Summarize

SpecMain == InitMain /\ [][NextMain]_vars

(***************************************************************************)
(* Properties                                                              *)
(***************************************************************************)

\* The input is newest first: author times do not increase along the sequence.
NewestFirst(cs) == \A i \in 1..(Len(cs) - 1) : cs[i].timestamp >= cs[i + 1].timestamp

\* The exact gap, in seconds, from commit a back to the older commit b.
ExactGap(a, b) == a.timestamp - b.timestamp

SessionGapSeconds == MAX_SESSION_GAP_HOURS * 3600

Last(s) == s[Len(s)]

RECURSIVE SumSeq(_)
\* The sum of a sequence of numbers.
SumSeq(s) == IF s = <<>> THEN 0 ELSE Head(s) + SumSeq(Tail(s))

\* r = n / d, for fractions.
RatioEq(r, n, d) == r.num * d = n * r.den

RECURSIVE RatioSum(_)
\* The sum of a sequence of fractions.
RatioSum(rs) ==
    IF rs = <<>> THEN Ratio(0, 1)
    ELSE LET rest == RatioSum(Tail(rs))
         IN Ratio(Head(rs).num * rest.den + rest.num * Head(rs).den, Head(rs).den * rest.den)

\* C1: for a newest-first input, two commits adjacent inside one returned
\* session are at most 4 hours apart, measured exactly (4h29m is more than
\* 4 hours), and the last commit of a session is more than 4 hours after the
\* first commit of the next session.
C1_SessionGapsExact ==
    (sessions # None /\ NewestFirst(commits)) =>
        LET ss == sessions[1]
        IN /\ \A k \in 1..Len(ss) : \A j \in 1..(Len(ss[k].commits) - 1) :
                ExactGap(ss[k].commits[j], ss[k].commits[j + 1]) <= SessionGapSeconds
           /\ \A k \in 1..(Len(ss) - 1) :
                ExactGap(Last(ss[k].commits), ss[k + 1].commits[1]) > SessionGapSeconds

\* C2: the estimated_hours of the returned sessions add up to what
\* estimate_work_hours returns for the whole sequence.
C2_SessionHoursSumToTotal ==
    sessions # None =>
        LET ss == sessions[1]
        IN SumSeq([k \in 1..Len(ss) |-> ss[k].estimated_hours]) = estimate_work_hours(commits)

\* C3: for a non-empty input the commit_count values of the contributor
\* list add up to the number of commits, every percentage is
\* 100 * commit_count / number of commits, and the percentages add up to 100.
C3_ContributorTotals ==
    (analysis # None /\ commits # <<>>) =>
        LET st == analysis[1].contribution_breakdown
        IN /\ SumSeq([k \in 1..Len(st) |-> st[k].commit_count]) = Len(commits)
           /\ \A k \in 1..Len(st) : RatioEq(st[k].percentage, 100 * st[k].commit_count, Len(commits))
           /\ RatioEq(RatioSum([k \in 1..Len(st) |-> st[k].percentage]), 100, 1)

\* C3 witness: three commits by two contributors have been aggregated
\* (two thirds and one third of the commits).
C3_Witness ==
    /\ analysis # None
    /\ Len(commits) = 3
    /\ Len(analysis[1].contribution_breakdown) = 2
    /\ analysis[1].contribution_breakdown[1].commit_count = 2

\* The file-count factor as the specification words it, in tenths.
ClaimedFileFactor(files_changed) ==
    CASE files_changed <= 5 -> 10
      [] files_changed >= 6 /\ files_changed <= 10 -> 12
      [] files_changed > 10 -> 14

\* C4: the change-based estimate of a commit carries the factor 1.0 for at
\* most 5 files changed, 1.2 for 6 to 10 and 1.4 for more than 10.  Stated
\* on the estimate of a one-commit sequence, which is its change-based part.
C4_FileCountFactor ==
    (estimated_hours # None /\ Len(commits) = 1) =>
        estimated_hours[1] =
            weighted_lines(commits[1]) * ClaimedFileFactor(commits[1].files_changed) * (HourUnit \div (100 * LINES_PER_HOUR))

\* The per-commit estimate as the specification words it.
ClaimedEstimate(cs, i) ==
    LET tb == time_based(cs, i)
        cb == estimate_from_changes(cs[i])
    IN IF tb > 0 THEN (6 * tb) \div 10 + (4 * cb) \div 10 ELSE cb

\* C5: the estimated hours are the sum over the commits of
\* 0.6 * time_based + 0.4 * change_based where time_based > 0 and of
\* change_based alone elsewhere, and are never negative.
C5_HybridSum ==
    estimated_hours # None =>
        /\ estimated_hours[1] = SumSeq([i \in 1..Len(commits) |-> ClaimedEstimate(commits, i)])
        /\ estimated_hours[1] >= 0

\* C5 witness: the estimate was taken of a sequence with a commit that has
\* both a positive gap and changes, and one with changes and no gap.
C5_Witness ==
    /\ estimated_hours # None
    /\ \E i \in 1..Len(commits) : time_based(commits, i) > 0 /\ estimate_from_changes(commits[i]) > 0
    /\ \E i \in 1..Len(commits) : time_based(commits, i) = 0 /\ estimate_from_changes(commits[i]) > 0

\* The complexity bands as the specification words them, in tenths.
ClaimedBand(v) ==
    CASE v < 100 -> 8
      [] 100 <= v /\ v < 500 -> 10
      [] 500 <= v /\ v < 2000 -> 12
      [] v >= 2000 -> 14

\* C6: every hourly rate of the result carries the factor of the band the
\* total change volume falls in; a volume of 1500 gives 1.2, so that the
\* Mid-level rate is base rate * 1.5 * 1.2.
C6_ComplexityBands ==
    calc_result # None =>
        LET r == calc_result[1]
            v == calc_args.total_changes
        IN /\ \A k \in 1..Len(r.developer_levels) :
                r.developer_levels[k].hourly_rate =
                    calc_args.base_hourly_rate * r.developer_levels[k].multiplier * ClaimedBand(v)
           /\ v = 1500 => r.developer_levels[2].hourly_rate = calc_args.base_hourly_rate * 15 * 12

\* C6 witness: calculate ran on a volume on a band edge.
C6_Witness ==
    /\ calc_result # None
    /\ calc_args.total_changes = 2000
    /\ calc_result[1].developer_levels[1].hourly_rate = calc_args.base_hourly_rate * 10 * 14

\* The table of levels as the specification words it (multipliers in tenths).
ClaimedLevels == <<<<"Junior", 10>>, <<"Mid-level", 15>>, <<"Senior", 20>>, <<"Lead", 25>>, <<"Principal", 30>>>>

\* C7: the result holds exactly the five levels of the table in order, one
\* factor shared by all rates, total_value = estimated hours * hourly_rate,
\* and recommended_value is the Mid-level total_value.
C7_FiveLevels ==
    calc_result # None =>
        LET r == calc_result[1]
            dl == r.developer_levels
        IN /\ Len(dl) = 5
           /\ \A k \in 1..5 : dl[k].level = ClaimedLevels[k][1] /\ dl[k].multiplier = ClaimedLevels[k][2]
           /\ \E factor \in {8, 10, 12, 14} :
                \A k \in 1..5 : dl[k].hourly_rate = calc_args.base_hourly_rate * dl[k].multiplier * factor
           /\ \A k \in 1..5 : dl[k].total_value = calc_args.estimated_hours * dl[k].hourly_rate
           /\ r.recommended_value = dl[2].total_value

\* C7 witness: calculate ran with hours that tell the levels' values apart.
C7_Witness ==
    /\ calc_result # None
    /\ calc_args.estimated_hours > 0
    /\ calc_result[1].recommended_value > calc_result[1].developer_levels[1].total_value

\* C8: on an empty commit sequence estimate_work_hours is 0, there are no
\* sessions, the contributor list is empty, and the patterns have
\* most_active_day "Unknown" and total_days 0.
C8_EmptySequence ==
    commits = <<>> =>
        /\ estimate_work_hours(commits) = 0
        /\ estimated_hours # None => estimated_hours[1] = 0
        /\ sessions # None => sessions[1] = <<>>
        /\ analysis # None => analysis[1].contribution_breakdown = <<>>
        /\ patterns # None =>
             /\ patterns[1].most_active_day = "Unknown"
             /\ patterns[1].commit_frequency.total_days = 0

\* C8 witness: the whole pipeline and the session partitioning ran on an
\* empty sequence.
C8_Witness ==
    /\ commits = <<>>
    /\ pc = "done"
    /\ sessions # None

RECURSIVE SelectOk(_)
\* The CommitInfo of every object of the walk whose extraction succeeds.
SelectOk(objects) ==
    IF objects = <<>> THEN <<>>
    ELSE (IF Head(objects).status = "ok" THEN <<extract_commit_info(Head(objects))>> ELSE <<>>) \o SelectOk(Tail(objects))

RECURSIVE SelectWindow(_, _, _)
\* The records of cs whose timestamp lies in [from, to].
SelectWindow(cs, from, to) ==
    IF cs = <<>> THEN <<>>
    ELSE (IF from <= Head(cs).timestamp /\ Head(cs).timestamp <= to THEN <<Head(cs)>> ELSE <<>>) \o SelectWindow(Tail(cs), from, to)

\* The first n elements of s, all of them when limit is None.
Limited(s, limit) == IF limit = None THEN s ELSE SubSeq(s, 1, Min(limit[1], Len(s)))

\* C9: once the walk of an opened repository has begun, analyze_commits
\* returns Ok whichever per-commit step fails, with every commit that could
\* be extracted (up to the limit).
C9_PerCommitFailureNotFatal ==
    (repository # <<>> /\ walk_result # "none") =>
        /\ walk_result = "Ok"
        /\ extracted = Limited(SelectOk(repository), cli.limit)

\* C10: with a window [from, to], what the extractor returns is exactly the
\* extractable commits with from <= timestamp <= to, in walk order, up to
\* the limit: none outside the window, and none inside it missing.
C10_WindowFilter ==
    (walk_result = "Ok" /\ window # None /\ window[1][1] # None /\ window[1][2] # None) =>
        extracted = Limited(SelectWindow(SelectOk(repository), window[1][1][1], window[1][2][1]), cli.limit)

\* C11: with a limit N, what analyze_commits returns has at most N records and
\* is the first N extractable commits of the walk, in walk order: a commit
\* whose extraction failed takes no slot.  With N = 0 the walk of a
\* repository that has commits returns the empty list.
C11_LimitFirstN ==
    /\ (walk_result = "Ok" /\ cli.limit # None) =>
          /\ Len(extracted) <= cli.limit[1]
          /\ extracted = SubSeq(SelectOk(repository), 1, Min(cli.limit[1], Len(SelectOk(repository))))
    /\ (cli.limit = Some(0) /\ repository # <<>> /\ walk_result # "none") =>
          /\ walk_result = "Ok"
          /\ extracted = <<>>

\* A limit of one, reached by the second commit of the walk after the first
\* was skipped, with a third extractable commit left out.
C11_Witness ==
    /\ walk_result = "Ok"
    /\ cli.limit = Some(1)
    /\ Len(repository) = 3
    /\ repository[1].status = "diff_error"
    /\ repository[2].status = "ok"
    /\ repository[3].status = "ok"
    /\ Len(extracted) = 1
    /\ extracted[1].hash = 2

\* The languages of the deltas whose extension the classifier knows.
RecognizedLanguages(deltas) ==
    {extension_to_language(deltas[i].ext[1]) :
        i \in {k \in 1..Len(deltas) : deltas[k].ext # None /\ extension_to_language(deltas[k].ext[1]) # "Other"}}

\* C12: a changed file of an unrecognized extension leaves no entry in the
\* commit's language_changes (the entries of a pushed record are exactly the
\* languages of its recognized extensions), and a walked file of an
\* unrecognized extension changes none of the counters of collect.
C12_UnrecognizedSkipped ==
    [][/\ (Len(extracted') = Len(extracted) + 1) =>
             DOMAIN extracted'[Len(extracted')].language_changes = RecognizedLanguages(repository[walk_pos].deltas)
       /\ (at_entry /\ tree[entry_pos].kind = "file" /\ detect_language(tree[entry_pos].ext) = None) =>
             UNCHANGED <<total_lines, code_lines, comment_lines, blank_lines, total_files, test_file_count, language_map>>]_vars

\* C13: for a tree of one readable file, the language the line counter
\* files it under and the weight it reports are the language and the weight
\* the diff attributor has for the same extension, and the file is left out
\* exactly when the attributor does not know the extension either.
C13_TablesIdentical ==
    (collect_result = "Ok" /\ Len(tree) = 1 /\ tree[1].kind = "file" /\ tree[1].ext # None /\ tree[1].content # None) =>
        LET stats == metrics[1].language_stats
        IN IF stats = <<>>
           THEN extension_to_language(tree[1].ext[1]) = "Other"
           ELSE /\ stats[1].name = extension_to_language(tree[1].ext[1])
                /\ stats[1].weight = get_language_weight(stats[1].name)

\* The line is nothing but whitespace.
WhitespaceOnly(line) == \A i \in 1..Len(line) : line[i] \in {" ", "\t"}

\* The line is `marker` after some indentation.
StartsAfterIndent(line, marker) ==
    \E k \in 0..Len(line) :
        /\ \A i \in 1..k : line[i] \in {" ", "\t"}
        /\ k + Len(marker) <= Len(line)
        /\ \A i \in 1..Len(marker) : line[k + i] = marker[i]

\* The single-line comment marker of the languages of the inputs.
SingleLineMarker(ext) ==
    IF ext = "rs" THEN <<"/", "/">> ELSE IF ext = "py" THEN <<"#">> ELSE <<>>

\* The tree is one readable file of extension ext, and it has been counted.
CountedOneFile(ext) ==
    /\ Len(tree) = 1
    /\ tree[1].kind = "file"
    /\ tree[1].ext = Some(ext)
    /\ tree[1].content # None
    /\ entry_pos = 2

\* C14: a counted file of N whitespace-only lines gives code 0, comment 0,
\* blank N; one of N lines that each start, after indentation, with the
\* language's single-line marker gives code 0, comment N, blank 0; the Rust
\* file "", "// c", "fn main() {}" gives 1, 1, 1 and is reported as Rust
\* with weight 1.5.
C14_LineClassification ==
    \A ext \in {"rs", "py", "html", "md"} :
        CountedOneFile(ext) =>
            LET lines == tree[1].content[1]
                N == Len(lines)
            IN /\ (\A i \in 1..N : WhitespaceOnly(lines[i])) =>
                     (code_lines = 0 /\ comment_lines = 0 /\ blank_lines = N)
               /\ (SingleLineMarker(ext) # <<>> /\ \A i \in 1..N : StartsAfterIndent(lines[i], SingleLineMarker(ext))) =>
                     (code_lines = 0 /\ comment_lines = N /\ blank_lines = 0)
               /\ (ext = "rs" /\ lines = <<<<>>, <<"/", "/", " ", "c">>, CodeLine>>) =>
                     /\ blank_lines = 1 /\ comment_lines = 1 /\ code_lines = 1
                     /\ collect_result = "Ok" =>
                          metrics[1].language_stats = <<[name |-> "Rust", lines |-> 3, files |-> 1, weight |-> 15]>>

\* A Rust file of three comment lines, one indented and one holding a
\* block-comment opener, counted as three comments.
C14_Witness ==
    /\ CountedOneFile("rs")
    /\ tree[1].content[1] = <<IndentedComment, CommentWithOpener, LineComment>>
    /\ comment_lines = 3
    /\ collect_result = "Ok"

\* C15: the step of collect over a file of a known language that cannot be
\* decoded changes none of total_files, test_file_count, the language map
\* and the line totals, and does not fail collect.
C15_UndecodableNotCounted ==
    [][(at_entry /\ tree[entry_pos].kind = "file" /\ detect_language(tree[entry_pos].ext) # None /\ tree[entry_pos].content = None) =>
          /\ UNCHANGED <<total_files, test_file_count, language_map, total_lines, code_lines, comment_lines, blank_lines>>
          /\ collect_result' # "Err"]_vars

RECURSIVE SelectAnalyzable(_)
\* The ids of the paths whose analysis succeeds, in the order given.
SelectAnalyzable(ps) ==
    IF ps = <<>> THEN <<>>
    ELSE (IF Head(ps).ok THEN <<Head(ps).id>> ELSE <<>>) \o SelectAnalyzable(Tail(ps))

\* C16: whichever paths fail, the loop reaches every path, and the collected
\* list holds the results of exactly the analyzable paths seen so far, in
\* the order the paths were given.
C16_FailuresIsolated ==
    /\ [i \in 1..Len(summaries) |-> summaries[i].path] = SelectAnalyzable(SubSeq(paths, 1, path_pos - 1))
    /\ main_result # "none" => path_pos = Len(paths) + 1

\* main has returned after three paths of which the second failed.
C16_Witness ==
    /\ main_result # "none"
    /\ Len(paths) = 3
    /\ paths[1].ok /\ ~paths[2].ok /\ paths[3].ok
    /\ Len(summaries) = 2
    /\ summaries[2].path = 3

\* C17: what a run of the pipeline produced is what any other run on the
\* same commits produces: the same analysis (contributor list included), the
\* same patterns (peak_hours and most_active_day included) and the same
\* period, whatever the iteration orders of the maps and the clock readings.
C17_RerunIdentical ==
    pc = "done" =>
        /\ \A order \in Orders(ContributorKeys(commits)) :
             analysis[1] = work_analysis(commits, estimated_hours[1], hourly_rate, order)
        /\ \A hour_order \in Orders(DOMAIN hourly_distribution(commits)) :
             \A day_order \in Orders(DOMAIN daily_distribution(commits)) :
               patterns[1] = analyze(commits, hour_order, day_order)
        /\ \A now1, now2 \in Clock : now1 <= now2 => period[1] = period_of(commits, now1, now2)

\* C18: the TotalSummary holds the sum of the commit counts, of the
\* estimated hours and of the recommended values of the collected
\* repositories, and the number of distinct author emails among all their
\* commits.
C18_TotalsAreSums ==
    total_summary # None =>
        LET t == total_summary[1]
            n == Len(summaries)
        IN /\ t.total_commits = SumSeq([i \in 1..n |-> Len(summaries[i].commits)])
           /\ t.total_hours = SumSeq([i \in 1..n |-> summaries[i].analysis.estimated_hours])
           /\ t.total_value = SumSeq([i \in 1..n |-> summaries[i].analysis.value_estimate.recommended_value])
           /\ t.total_contributors =
                 Cardinality({e \in {"ann@x", "bob@x", "cy@x"} :
                                 \E i \in 1..n : \E j \in 1..Len(summaries[i].commits) : summaries[i].commits[j].email = e})

\* Two collected repositories share the email bob@x, which counts once.
C18_Witness ==
    /\ total_summary # None
    /\ Len(summaries) = 2
    /\ \A i \in 1..2 : \E j \in 1..Len(summaries[i].commits) : summaries[i].commits[j].email = "bob@x"
    /\ summaries[1].analysis.unique_contributors + summaries[2].analysis.unique_contributors = 3
    /\ total_summary[1].total_contributors = 2

\* C19: the contributor list is ordered by non-increasing commit_count.
C19_ContributorsSorted ==
    analysis # None =>
        LET list == analysis[1].contribution_breakdown
        IN \A i, j \in 1..Len(list) : i < j => list[i].commit_count >= list[j].commit_count

\* Three commits by two contributors, the first of the list with more commits than the last.
C19_Witness ==
    /\ analysis # None
    /\ Len(commits) = 3
    /\ Len(analysis[1].contribution_breakdown) = 2
    /\ analysis[1].contribution_breakdown[1].commit_count = 2
    /\ analysis[1].contribution_breakdown[2].commit_count = 1

\* The gap of `seconds` between two author times as the specification words
\* it: whole hours plus (minutes mod 60) / 60, within [0, 4].  In HourUnit.
ClaimedGapHours(seconds) ==
    IF seconds < 0 THEN 0
    ELSE LET whole == seconds \div 3600
             minutes == (seconds \div 60) % 60
             hours == whole * HourUnit + minutes * (HourUnit \div 60)
         IN IF hours > 4 * HourUnit THEN 4 * HourUnit ELSE hours

\* The time-based part of commit i as the specification words it.
ClaimedTimeBased(cs, i) ==
    IF i = Len(cs) THEN 0 ELSE ClaimedGapHours(cs[i].timestamp - cs[i + 1].timestamp)

\* C20: the estimate is the one obtained with, as time-based part of commit
\* i, the clamped gap to commit i+1 (0 for a negative gap, 4 hours for a
\* longer one) and 0 for the oldest commit.
C20_TimeGapClamped ==
    estimated_hours # None =>
        estimated_hours[1] =
            SumSeq([i \in 1..Len(commits) |->
                      IF ClaimedTimeBased(commits, i) > 0
                      THEN (ClaimedTimeBased(commits, i) * 6 + estimate_from_changes(commits[i]) * 4) \div 10
                      ELSE estimate_from_changes(commits[i])])

\* An estimate over three commits with a gap of 5h30m followed by a
\* negative gap.
C20_Witness ==
    /\ estimated_hours # None
    /\ Len(commits) = 3
    /\ commits[1].timestamp - commits[2].timestamp = 19800
    /\ commits[2].timestamp - commits[3].timestamp < 0
    /\ \A i \in 1..3 : commits[i].files_changed = 0
    /\ estimated_hours[1] = (4 * HourUnit * 6) \div 10

\* The weighted line count as the specification words it, in tenths of a
\* line: the weighted sum over the language entries, and the raw line count
\* only for a commit without language entries.
ClaimedWeightedLines(commit) ==
    LET lc == commit.language_changes
        langs == DOMAIN lc
    IN IF langs = {} /\ commit.insertions + commit.deletions > 0
       THEN (commit.insertions + commit.deletions) * 10
       ELSE SumSet(langs, [l \in langs |-> (lc[l].insertions + lc[l].deletions) * get_language_weight(l)])

\* C21: the estimate of a single commit (which has no time-based part) is
\* its weighted line count as worded, divided by the throughput and scaled
\* by the file-count factor; the raw line count is used only when the
\* commit has no language entries.
C21_WeightedLinesFallback ==
    (estimated_hours # None /\ Len(commits) = 1) =>
        estimated_hours[1] =
            ClaimedWeightedLines(commits[1]) * complexity_factor(commits[1].files_changed) * (HourUnit \div (100 * LINES_PER_HOUR))

\* The newest and the oldest author time of a non-empty sequence.
NewestTime(cs) == CHOOSE t \in {cs[i].timestamp : i \in 1..Len(cs)} : \A i \in 1..Len(cs) : cs[i].timestamp <= t

OldestTime(cs) == CHOOSE t \in {cs[i].timestamp : i \in 1..Len(cs)} : \A i \in 1..Len(cs) : cs[i].timestamp >= t

\* C22: for a non-empty sequence, in any order of its author times,
\* total_days is the whole days between the oldest and the newest author
\* time plus one, and is at least 1.
C22_TotalDays ==
    (patterns # None /\ commits # <<>>) =>
        /\ patterns[1].commit_frequency.total_days = (NewestTime(commits) - OldestTime(commits)) \div SecondsPerDay + 1
        /\ patterns[1].commit_frequency.total_days >= 1

\* The calendar dates (days since 1970-01-01) that have a commit.
CommitDates(cs) == {cs[i].timestamp \div SecondsPerDay : i \in 1..Len(cs)}

\* The number of commits of cs on the date d.
CommitsOn(cs, d) == Cardinality({i \in 1..Len(cs) : cs[i].timestamp \div SecondsPerDay = d})

\* C23: for a non-empty sequence, active_days is the number of distinct
\* dates with a commit, max_commits_per_day the largest number of commits
\* on one date, and average_commits_per_day the number of commits divided by
\* total_days, 0 when total_days is 0.
C23_CommitFrequency ==
    (patterns # None /\ commits # <<>>) =>
        LET f == patterns[1].commit_frequency
        IN /\ f.active_days = Cardinality(CommitDates(commits))
           /\ \E d \in CommitDates(commits) : f.max_commits_per_day = CommitsOn(commits, d)
           /\ \A d \in CommitDates(commits) : f.max_commits_per_day >= CommitsOn(commits, d)
           /\ IF f.total_days = 0
              THEN RatioEq(f.average_commits_per_day, 0, 1)
              ELSE RatioEq(f.average_commits_per_day, Len(commits), f.total_days)

\* The number of commits of cs in the hour h of the clock.
CommitsInHour(cs, h) == Cardinality({i \in 1..Len(cs) : (cs[i].timestamp % SecondsPerDay) \div 3600 = h})

\* C24: peak_hours lists min(3, number of distinct commit hours) distinct
\* hours of 0..23 that have commits, in non-increasing order of commit
\* count, and no hour left out has more commits than a listed one.
C24_PeakHours ==
    patterns # None =>
        LET peak == patterns[1].peak_hours
            used == {h \in 0..23 : CommitsInHour(commits, h) > 0}
            listed == {peak[k] : k \in 1..Len(peak)}
        IN /\ Len(peak) = (IF Cardinality(used) < 3 THEN Cardinality(used) ELSE 3)
           /\ listed \subseteq used
           /\ \A j, k \in 1..Len(peak) : j < k =>
                 /\ peak[j] # peak[k]
                 /\ CommitsInHour(commits, peak[j]) >= CommitsInHour(commits, peak[k])
           /\ \A h \in used \ listed : \A k \in 1..Len(peak) :
                 CommitsInHour(commits, h) <= CommitsInHour(commits, peak[k])

\* Commits in four hours of the clock, one hour with two of them: that hour
\* leads the list and one of the others is left out.
C24_Witness ==
    /\ patterns # None
    /\ Cardinality({h \in 0..23 : CommitsInHour(commits, h) > 0}) = 4
    /\ Len(patterns[1].peak_hours) = 3
    /\ CommitsInHour(commits, patterns[1].peak_hours[1]) = 2
    /\ CommitsInHour(commits, patterns[1].peak_hours[3]) = 1

\* The line holds `marker` somewhere.
Holds(line, marker) ==
    \E k \in 0..(Len(line) - Len(marker)) : \A i \in 1..Len(marker) : line[k + i] = marker[i]

\* The block markers of the languages of the inputs; <<>> for none.
BlockStart(ext) ==
    IF ext = "rs" THEN <<"/", "*">> ELSE IF ext = "html" THEN <<"<", "!", "-", "-">> ELSE <<>>

BlockEnd(ext) ==
    IF ext = "rs" THEN <<"*", "/">> ELSE IF ext = "html" THEN <<"-", "-", ">">> ELSE <<>>

\* The scanner as the specification words it, after `line`: scan holds the
\* three counts and whether the scanner is in comment mode.
ClaimedScanLine(scan, line, ext) ==
    IF WhitespaceOnly(line)
    THEN [scan EXCEPT !.blank = @ + 1]
    ELSE IF BlockStart(ext) # <<>> /\ Holds(line, BlockStart(ext))
    THEN [scan EXCEPT !.comment = @ + 1, !.mode = ~Holds(line, BlockEnd(ext))]
    ELSE IF scan.mode
    THEN [scan EXCEPT !.comment = @ + 1, !.mode = ~Holds(line, BlockEnd(ext))]
    ELSE IF SingleLineMarker(ext) # <<>> /\ StartsAfterIndent(line, SingleLineMarker(ext))
    THEN [scan EXCEPT !.comment = @ + 1]
    ELSE [scan EXCEPT !.code = @ + 1]

RECURSIVE ClaimedScan(_, _)
\* The scanner as worded, after all of `lines`.
ClaimedScan(lines, ext) ==
    IF lines = <<>> THEN [code |-> 0, comment |-> 0, blank |-> 0, mode |-> FALSE]
    ELSE ClaimedScanLine(ClaimedScan(SubSeq(lines, 1, Len(lines) - 1), ext), lines[Len(lines)], ext)

\* C25: the counts of a counted file are those of the line-by-line scanner
\* as worded: a non-blank line holding the block-start marker is a comment
\* and opens comment mode unless it holds the block-end marker too; in
\* comment mode every non-blank line is a comment and the first one holding
\* the block-end marker closes the mode; code is counted only outside the
\* mode; a language without block markers never enters it.
C25_BlockCommentScanner ==
    \A ext \in {"rs", "py", "html", "md"} :
        CountedOneFile(ext) =>
            LET scan == ClaimedScan(tree[1].content[1], ext)
            IN /\ code_lines = scan.code
               /\ comment_lines = scan.comment
               /\ blank_lines = scan.blank
               /\ BlockStart(ext) = <<>> => ~scan.mode

\* A Rust file: a block opened, a line of code inside it, the block closed.
C25_Witness ==
    /\ CountedOneFile("rs")
    /\ tree[1].content[1] = <<BlockOpen, CodeLine, BlockClose>>
    /\ comment_lines = 3
    /\ code_lines = 0

RECURSIVE ConcatCommits(_)
\* The commit lists of the sessions, one after the other.
ConcatCommits(ss) ==
    IF ss = <<>> THEN <<>> ELSE Head(ss).commits \o ConcatCommits(Tail(ss))

\* C27: the sessions of a non-empty sequence partition it: there is at
\* least one, none is empty, and their commit lists put end to end are the
\* input sequence.
C27_SessionsPartition ==
    (sessions # None /\ commits # <<>>) =>
        /\ Len(sessions[1]) >= 1
        /\ \A k \in 1..Len(sessions[1]) : sessions[1][k].commits # <<>>
        /\ ConcatCommits(sessions[1]) = commits

\* Three commits in two sessions, the last session holding the last commit
\* alone.
C27_Witness ==
    /\ sessions # None
    /\ Len(commits) = 3
    /\ Len(sessions[1]) = 2
    /\ sessions[1][2].commits = <<commits[3]>>

\* C28: during and after collect the three line classes add up to
\* total_lines, and in the returned Metrics the lines of language_stats add
\* up to total_lines as well.
C28_LineClassesPartition ==
    /\ code_lines + comment_lines + blank_lines = total_lines
    /\ collect_result = "Ok" =>
          /\ metrics[1].code_lines + metrics[1].comment_lines + metrics[1].blank_lines = metrics[1].total_lines
          /\ SumSeq([k \in 1..Len(metrics[1].language_stats) |-> metrics[1].language_stats[k].lines]) = metrics[1].total_lines

\* Files of two languages were read and each class received a line.
C28_Witness ==
    /\ collect_result = "Ok"
    /\ Len(metrics[1].language_stats) >= 2
    /\ metrics[1].code_lines >= 1
    /\ metrics[1].comment_lines >= 1
    /\ metrics[1].blank_lines >= 1

\* C29: for a non-empty newest-first sequence, analyze returns
\* active_days <= total_days.
C29_ActiveDaysWithinTotal ==
    (patterns # None /\ commits # <<>> /\ NewestFirst(commits)) =>
        patterns[1].commit_frequency.active_days <= patterns[1].commit_frequency.total_days

\* The sum of a field over the commits of one email, commit by commit.
SumOfEmail(cs, email, field) ==
    SumSeq([i \in 1..Len(cs) |-> IF cs[i].email = email THEN cs[i][field] ELSE 0])

\* C30: each distinct author email has exactly one ContributorStat in the
\* contribution breakdown, carrying the sums of insertions, deletions and
\* files_changed over that email's commits; every stat belongs to an email
\* of the input, and unique_contributors is the length of the breakdown.
C30_OneStatPerEmail ==
    analysis # None =>
        LET list == analysis[1].contribution_breakdown
            emails == {commits[i].email : i \in 1..Len(commits)}
        IN /\ \A e \in emails :
                /\ Cardinality({k \in 1..Len(list) : list[k].email = e}) = 1
                /\ \A k \in 1..Len(list) :
                      list[k].email = e =>
                          /\ list[k].insertions = SumOfEmail(commits, e, "insertions")
                          /\ list[k].deletions = SumOfEmail(commits, e, "deletions")
                          /\ list[k].files_changed = SumOfEmail(commits, e, "files_changed")
           /\ \A k \in 1..Len(list) : list[k].email \in emails
           /\ analysis[1].unique_contributors = Len(list)

\* Commits signed Bob and Robert with one email, next to a commit of Ann:
\* two stats, the shared email's with the sums of both of its commits.
C30_Witness ==
    /\ analysis # None
    /\ Len(commits) = 3
    /\ \E i, j \in 1..3 : commits[i].author = "Bob" /\ commits[j].author = "Robert"
    /\ analysis[1].unique_contributors = 2
    /\ \E k \in 1..2 :
          /\ analysis[1].contribution_breakdown[k].email = "bob@x"
          /\ analysis[1].contribution_breakdown[k].files_changed = 9
          /\ analysis[1].contribution_breakdown[k].insertions = 30

====
